---------------------------- MODULE Spec2Model ----------------------------
(***************************************************************************)
(* Clarity front end: the document upload / status polling handler of the  *)
(* PresentationViewer, the TransformPage transform handler and the lecture *)
(* pages' transform handlers, as state machines.  Every await of the code  *)
(* is a position (pc) of the handler; the network and the timers are the   *)
(* environment, which settles an await by an action of its own.            *)
(***************************************************************************)
EXTENDS Integers, Sequences, FiniteSets, TLC

(***************************************************************************)
(* Bounds of the model.                                                    *)
(***************************************************************************)
\* progress-simulation ticks (150 ms interval) modelled per upload call
MaxTicks == 1
\* how far beyond a character limit the modelled texts go
MaxOver == 1
\* the largest VITE_MAX_REQUESTS_PER_MINUTE the model configures
MaxConfiguredLimit == 2
\* how many half-minute steps the clock advances
MaxClockSteps == 2
\* how many transform calls of a lecture page may be in progress at once
MaxCalls == 2
\* pushed locations kept on the browser's back stack
MaxHistory == 2

(***************************************************************************)
(* PresentationViewer.tsx                                                  *)
(***************************************************************************)
VARIABLES
  \* React state of the component
  uploading, uploadProgress, error, presentation, iframeLoading, iframeError,
  viewerRetryCount,
  \* locals of the running handleFileUpload call
  file, retryCount, lastError, statusCheckCount, responseData,
  \* position of the call, the pending setTimeout, the last elapsed one, and
  \* the return statement the last call left through
  pvPc, timer, lastWait, exitPath,
  \* what the network saw during the call: upload requests, status requests,
  \* the kind of the last status response; interval ticks of the call
  uploads, polls, statusKind, ticks,
  \* the rendered iframe has a load/error event outstanding
  iframePending

pvState  == <<uploading, uploadProgress, error, presentation, iframeLoading,
              iframeError, viewerRetryCount>>
pvLocals == <<file, retryCount, lastError, statusCheckCount, responseData>>
pvCtl    == <<pvPc, timer, lastWait, exitPath>>
pvObs    == <<uploads, polls, statusKind, ticks>>
pvVars   == <<pvState, pvLocals, pvCtl, pvObs, iframePending>>

(***************************************************************************)
(* TransformPage.tsx, utils/rateLimiter.ts, services/api.ts                *)
(***************************************************************************)
VARIABLES
  \* React state of TransformPage
  inputText, outputText, transformType, transformLevel, isLoading, tpError,
  isTestingConnection,
  \* the rateLimiter singleton and the clock (Date.now())
  requests, maxRequestsPerMinute, now,
  \* a record of the times at which the page sent a transform request to
  \* the API (the latest MaxConfiguredLimit + 1 of them), kept by the
  \* specifications that start it empty
  sent,
  \* the running handleTransform call: its position, the render values its
  \* closure captured, the request it has in flight, how the last call ended
  tpPc, closure, tpRequest, tpOutcome,
  \* the running testApiConnection call
  testPc

tpState == <<inputText, outputText, transformType, transformLevel, isLoading,
             tpError, isTestingConnection>>
tpLimiter == <<requests, maxRequestsPerMinute, now, sent>>
tpCall  == <<tpPc, closure, tpRequest, tpOutcome>>
tpVars  == <<tpState, tpLimiter, tpCall, testPc>>

(***************************************************************************)
(* The lecture pages: components/lecture/LecturePage.tsx, its variant in   *)
(* unnamed/part_003, and pages/LecturePage.tsx                             *)
(***************************************************************************)
VARIABLES
  \* which of the three pages is mounted
  variant,
  \* React state of the page (isOverLimit is derived from characterCount in
  \* pages/LecturePage.tsx)
  currentText, characterCount, isOverLimit, lpIsLoading, lpError, lpOutputText,
  \* the isOverLimit values of the renders so far (a callback that awaited
  \* may still hold the handler of an earlier render)
  seenOverLimit,
  \* the transform calls in progress: position and the text each captured
  calls,
  \* pending setTimeout(() => loginWithRedirect(...), 2000) timers
  loginTimers

lpState == <<currentText, characterCount, isOverLimit, lpIsLoading, lpError,
             lpOutputText>>
lpVars  == <<variant, lpState, seenOverLimit, calls, loginTimers>>

\* calls of Auth0's loginWithRedirect made by a page's handlers
VARIABLE loginRedirects

(***************************************************************************)
(* App.tsx (the route guard, ProtectedRoute, PublicRoute), its simplified  *)
(* variant in unnamed/part_007 and the older App at the end of App.tsx     *)
(***************************************************************************)
VARIABLES
  \* which App is running
  appVariant,
  \* useAuth0(): isAuthenticated, isLoading
  isAuthenticated, authLoading,
  \* location.pathname
  pathname,
  \* App's redirecting state, ProtectedRoute's redirectingToLogin state
  redirecting, redirectingToLogin,
  \* the browser is leaving the application for the Auth0 login page
  leaving,
  \* Auth0 holds a session for the user
  session,
  \* the browser's back stack (locations pushed, not replaced)
  history

appVars == <<appVariant, isAuthenticated, authLoading, pathname, redirecting,
             redirectingToLogin, leaving, session, history>>

(***************************************************************************)
(* FileUpload of components/lecture/LecturePage.tsx with FileContext       *)
(***************************************************************************)
VARIABLES
  \* FileContext's files
  files,
  \* the running handleFileChange call: its position and the file it holds
  fuPc, fuPending,
  \* the last alert() shown
  fuAlert

fuVars == <<files, fuPc, fuPending, fuAlert>>

(***************************************************************************)
(* convert_pptx_to_pdf of powerpoint_pdf_conversion_roadmap.md             *)
(***************************************************************************)
VARIABLES
  \* the position of the call
  cvPc,
  \* the converter subprocess: its state and its exit code
  process,
  \* seconds spent in wait_for
  elapsed,
  \* the names of the files in output_dir
  output_dir,
  \* what the call returned, whether an exception left it, whether it
  \* looked for a file
  cvResult, cvRaised, lookedForFile

cvVars == <<cvPc, process, elapsed, output_dir, cvResult, cvRaised,
            lookedForFile>>

(***************************************************************************)
(* The shared ocrService of services/ocr.ts                                *)
(***************************************************************************)
VARIABLES
  \* the fields of OcrService
  scheduler, worker, isInitialized,
  \* the Tesseract workers that were created and have not been terminated,
  \* and the number of workers created so far
  alive, created,
  \* the calls of initialize and terminate that are awaiting
  ocrCalls,
  \* FileViewer is mounted
  viewerMounted

ocrVars == <<scheduler, worker, isInitialized, alive, created, ocrCalls,
             viewerMounted>>

(***************************************************************************)
(* FileProvider of contexts/FileContext.tsx with the FileViewer above it   *)
(***************************************************************************)
VARIABLES
  \* the files state: id, progress, textContent, url of each file
  fcFiles,
  \* the object URLs passed to URL.revokeObjectURL
  revoked,
  \* the number of uploadFile calls so far
  uploaded,
  \* the ids of the text files whose FileReader has not finished
  reading,
  \* FileViewer is mounted
  previewMounted

fcVars == <<fcFiles, revoked, uploaded, reading, previewMounted>>

(***************************************************************************)
(* One ProtectedRoute and the useAuth0() state it reads                    *)
(***************************************************************************)
VARIABLES
  \* which ProtectedRoute this is
  prVariant,
  \* the component is mounted
  prMounted,
  \* useAuth0(): isLoading, isAuthenticated
  prIsLoading, prIsAuthenticated,
  \* the redirectingToLogin state of App.tsx's ProtectedRoute
  prRedirectingToLogin,
  \* the effect is due: "mount" after the first commit, "update" after a
  \* dependency has changed, "no" otherwise
  prEffectDue,
  \* the application is rendered inside <React.StrictMode> by a development
  \* build, which runs the effects of a mounting component twice
  strictMode,
  \* the loginWithRedirect calls since the mount or the last change of the
  \* auth state
  prCalls

prVars == <<prVariant, prMounted, prIsLoading, prIsAuthenticated,
            prRedirectingToLogin, prEffectDue, strictMode, prCalls>>

(***************************************************************************)
(* A viewer whose preview retries are capped                               *)
(***************************************************************************)
VARIABLES
  \* which viewer this is
  rvVariant,
  \* the state of the component
  rvPresentation, rvUploading, rvIframeLoading, rvIframeError, rvRetryCount,
  \* the preview element: "loading" until it fires load or error
  rvFrame,
  \* the 500 ms timer of handleIframeLoad is pending
  rvLoadTimer,
  \* the reloads of the preview since the presentation was set or last
  \* loaded, and the presentations uploaded so far
  rvReloads, rvUploads

rvVars == <<rvVariant, rvPresentation, rvUploading, rvIframeLoading,
            rvIframeError, rvRetryCount, rvFrame, rvLoadTimer, rvReloads,
            rvUploads>>

vars == <<pvVars, tpVars, lpVars, loginRedirects, appVars, fuVars, cvVars,
          ocrVars, fcVars, prVars, rvVars>>

\* what the actions of one component leave alone
exceptViewer    == <<tpVars, lpVars, loginRedirects, appVars, fuVars, cvVars,
                    ocrVars, fcVars, prVars, rvVars>>
exceptTransform == <<pvVars, lpVars, appVars, fuVars, cvVars,
                    ocrVars, fcVars, prVars, rvVars>>
exceptLecture   == <<pvVars, tpVars, appVars, fuVars, cvVars,
                    ocrVars, fcVars, prVars, rvVars>>
exceptApp       == <<pvVars, tpVars, lpVars, fuVars, cvVars,
                    ocrVars, fcVars, prVars, rvVars>>
exceptUpload    == <<pvVars, tpVars, lpVars, loginRedirects, appVars, cvVars,
                    ocrVars, fcVars, prVars, rvVars>>
exceptConvert   == <<pvVars, tpVars, lpVars, loginRedirects, appVars, fuVars,
                    ocrVars, fcVars, prVars, rvVars>>
exceptOcr       == <<pvVars, tpVars, lpVars, loginRedirects, appVars, fuVars,
                    cvVars, fcVars, prVars, rvVars>>
exceptFileContext == <<pvVars, tpVars, lpVars, loginRedirects, appVars,
                       fuVars, cvVars, ocrVars, prVars, rvVars>>
exceptRoute     == <<pvVars, tpVars, lpVars, loginRedirects, appVars, fuVars,
                    cvVars, ocrVars, fcVars, rvVars>>
exceptRetryViewer == <<pvVars, tpVars, lpVars, loginRedirects, appVars,
                       fuVars, cvVars, ocrVars, fcVars, prVars>>

\* ---- values ----
Null      == "<null>"
Undefined == "undefined"
NoPresentation == [null |-> TRUE]
NoResponse     == [kind |-> "none"]
NoFile         == [name |-> Null, type |-> Null]

ApiUrl == "https://clarity-backend-production.up.railway.app"
PdfMime  == "application/pdf"
PptMime  == "application/vnd.ms-powerpoint"
PptxMime == "application/vnd.openxmlformats-officedocument.presentationml.presentation"
DocxMime == "application/vnd.openxmlformats-officedocument.wordprocessingml.document"

SUPPORTED_FILE_TYPES == {".ppt", ".pptx", ".doc", ".docx", ".pdf"}

\* '.' + file.name.split('.').pop()?.toLowerCase()
FileExt(name) ==
  CASE name = "slides.pptx" -> ".pptx"
    [] name = "old.ppt"     -> ".ppt"
    [] name = "notes.docx"  -> ".docx"
    [] name = "letter.doc"  -> ".doc"
    [] name = "paper.PDF"   -> ".pdf"
    [] name = "scan.docx"   -> ".docx"
    [] name = "readme.txt"  -> ".txt"
    [] OTHER                -> ".bin"

\* file.name.replace(/\s+/g, '-').toLowerCase()
Slug(name) ==
  CASE name = "paper.PDF" -> "paper.pdf"
    [] OTHER              -> name

\* the files the user may pick (name, MIME type reported by the browser)
Files ==
  { [name |-> "slides.pptx", type |-> PptxMime],
    [name |-> "notes.docx",  type |-> DocxMime],
    [name |-> "paper.PDF",   type |-> PdfMime],
    [name |-> "scan.docx",   type |-> PdfMime],
    [name |-> "readme.txt",  type |-> "text/plain"] }

DocIds == {"d1", "d2"}

maxRetries         == 3
maxStatusChecks    == 10
PollDelayMs        == 2000
FallbackDelayMs    == 5000
BackoffUnitMs      == 1000
SlowCheckThreshold == 5
\* uploadProgress is kept in tenths of a percent (the interval adds 0.5 and 0.2)
ProgressFull       == 1000

\* ---- responses of the upload endpoint ----
\* reject: fetch throws; badjson: body is not JSON; httperr: !response.ok;
\* ok: a JSON object with optional error, document_id, status,
\* check_status_url and url fields
UploadShapes ==
  { <<"processing", "/api/presentations/status", Undefined>>,
    <<"processing", Undefined, "/static/p/index.html">>,
    <<Undefined, Undefined, "/static/p/index.html">>,
    <<"processing", Undefined, Undefined>>,
    <<Undefined, "/api/presentations/status", Undefined>> }

UploadResponses ==
  { [kind |-> "reject"], [kind |-> "badjson"] }
  \cup [kind : {"httperr"}, detail : {Undefined, "File too large"}]
  \cup [kind : {"ok"}, error : {"Conversion failed"}]
  \cup { [kind |-> "ok", error |-> Undefined, document_id |-> d,
          status |-> sh[1], check_status_url |-> sh[2], url |-> sh[3]] :
         d \in DocIds \cup {Undefined}, sh \in UploadShapes }

\* ---- responses of the status endpoint ----
\* files: the shape of statusData.files ("none": absent, "empty": {}, else the
\* kind of its first value; "blank" is an empty string)
StatusBody(st, u, f, d, e) ==
  [kind |-> "ok", status |-> st, url |-> u, files |-> f, document_id |-> d,
   error |-> e]

StatusResponses ==
  { [kind |-> "reject"], [kind |-> "notok"], [kind |-> "badjson"] }
  \cup { StatusBody(st, u, "none", d, Undefined) :
           st \in {"complete", "completed"},
           u \in {Undefined, "/api/presentations/file", "http://cdn/p.pdf"},
           d \in DocIds \cup {Undefined} }
  \cup { StatusBody("complete", Undefined, f, d, Undefined) :
           f \in {"empty", "string", "object", "other", "blank"},
           d \in DocIds }
  \cup { StatusBody("error", Undefined, "none", Undefined, e) :
           e \in {Undefined, "LibreOffice crashed"} }
  \cup { StatusBody(st, Undefined, "none", d, Undefined) :
           st \in {"processing", "queued"}, d \in DocIds }

\* progress simulation, setUploadProgress(prev => ...)
NextProgress(prev) ==
  IF prev < 300 THEN prev + 20
  ELSE IF prev < 600 THEN prev + 10
  ELSE IF prev < 900 THEN prev + 5
  ELSE IF prev < 1000 THEN prev + 2
  ELSE 1000

\* faulty variant: the same delay before every retry
BackoffMsFixed(k) == BackoffUnitMs

\* delay before retry number k of the upload
BackoffMs(k) == BackoffUnitMs * k

\* the iframe is rendered only while nothing is loading and no load error shows
IframeRendered(pres, loading, ierr) ==
  pres # NoPresentation /\ ~loading /\ ierr = Null

PresUrl(pres) == IF pres = NoPresentation THEN <<>> ELSE pres.url

\* a (re)mounted iframe, or one whose src changed, owes a load or error event
PendingAfter(pres, loading, ierr) ==
  IF ~IframeRendered(pres, loading, ierr) THEN FALSE
  ELSE IF ~IframeRendered(presentation, iframeLoading, iframeError)
          \/ PresUrl(pres) # PresUrl(presentation) THEN TRUE
  ELSE iframePending

InitViewer ==
  /\ uploading = FALSE /\ uploadProgress = 0 /\ error = Null
  /\ presentation = NoPresentation /\ iframeLoading = FALSE
  /\ iframeError = Null /\ viewerRetryCount = 0
  /\ file = NoFile /\ retryCount = 0 /\ lastError = Null
  /\ statusCheckCount = 0 /\ responseData = NoResponse
  /\ pvPc = "idle" /\ timer = 0 /\ lastWait = 0 /\ exitPath = "none"
  /\ uploads = 0 /\ polls = 0 /\ statusKind = "none" /\ ticks = 0
  /\ iframePending = FALSE

\* ---- how handleFileUpload leaves ----
\* faulty variant: a return that skips the finally block
ReturnNoFinally(path, pres, loading) ==
  /\ uploadProgress' = ProgressFull
  /\ presentation' = pres
  /\ iframeLoading' = loading
  /\ pvPc' = "done" /\ exitPath' = path /\ timer' = 0
  /\ iframePending' = PendingAfter(pres, loading, iframeError)
  /\ UNCHANGED <<uploading, error, iframeError, viewerRetryCount>>

\* a return from inside the outer try: the finally block clears uploading
Return(path, pres, loading) ==
  /\ uploadProgress' = ProgressFull
  /\ presentation' = pres
  /\ iframeLoading' = loading
  /\ uploading' = FALSE
  /\ pvPc' = "done" /\ exitPath' = path /\ timer' = 0
  /\ iframePending' = PendingAfter(pres, loading, iframeError)
  /\ UNCHANGED <<error, iframeError, viewerRetryCount>>

\* faulty variant: every file type ends with a generic message
AllRetriesFailedGeneric(err) ==
  /\ error' = "Failed to upload file. Please try again."
  /\ uploading' = FALSE
  /\ pvPc' = "done" /\ exitPath' = "failed" /\ timer' = 0
  /\ UNCHANGED <<uploadProgress, presentation, iframeLoading, iframeError,
                 viewerRetryCount, iframePending>>

\* all retries failed (lines 571-619)
AllRetriesFailed(err) ==
  IF file.type = PdfMime
  THEN /\ Return("lastresort",
                 [id |-> Slug(file.name), document_id |-> Slug(file.name),
                  url |-> <<ApiUrl, "static", "uploads", Slug(file.name), ".pdf">>,
                  apiUrl |-> <<ApiUrl, "static", "uploads", Slug(file.name), ".pdf">>,
                  isPowerPoint |-> FALSE],
                 TRUE)
  ELSE /\ error' = err
       /\ uploading' = FALSE
       /\ pvPc' = "done" /\ exitPath' = "failed" /\ timer' = 0
       /\ UNCHANGED <<uploadProgress, presentation, iframeLoading, iframeError,
                      viewerRetryCount, iframePending>>

\* catch (err) of the retry loop (lines 561-568)
AttemptFailed(err) ==
  /\ lastError' = err
  /\ retryCount' = retryCount + 1
  /\ IF retryCount + 1 < maxRetries
     THEN /\ pvPc' = "backoff" /\ timer' = BackoffMs(retryCount + 1)
          /\ UNCHANGED <<pvState, exitPath, iframePending>>
     ELSE AllRetriesFailed(err)

\* faulty variant: polling starts on the status alone
NeedsPollingOnStatusOnly(r) == r.status = "processing"

\* responseData.status === "processing" && responseData.check_status_url
\* (line 380)
NeedsPolling(r) == r.status = "processing" /\ r.check_status_url # Undefined

\* ---- actions ----
\* <input type=file onChange={handleFileUpload}>, rendered in the upload area
\* only (no presentation) and disabled while uploading
SelectFile(f) ==
  /\ pvPc \in {"idle", "done"}
  /\ presentation = NoPresentation /\ ~uploading
  /\ file' = f
  /\ IF FileExt(f.name) \notin SUPPORTED_FILE_TYPES
     THEN /\ error' = "Please select a supported file type"
          /\ pvPc' = "done" /\ exitPath' = "badtype"
          \* returns before the locals of the call exist
          /\ retryCount' = 0 /\ lastError' = Null
          /\ statusCheckCount' = 0 /\ responseData' = NoResponse
          /\ timer' = 0 /\ lastWait' = 0
          /\ uploads' = 0 /\ polls' = 0 /\ statusKind' = "none" /\ ticks' = 0
          /\ UNCHANGED <<uploading, uploadProgress, presentation, iframeLoading,
                         iframeError, viewerRetryCount, iframePending>>
     ELSE /\ uploading' = TRUE /\ uploadProgress' = 0 /\ error' = Null
          /\ iframeError' = Null /\ viewerRetryCount' = 0
          /\ retryCount' = 0 /\ lastError' = Null
          /\ statusCheckCount' = 0 /\ responseData' = NoResponse
          /\ pvPc' = "upload" /\ exitPath' = "none"
          /\ timer' = 0 /\ lastWait' = 0
          /\ uploads' = 1 /\ polls' = 0 /\ statusKind' = "none" /\ ticks' = 0
          /\ UNCHANGED <<presentation, iframeLoading, iframePending>>

\* the upload fetch settles (lines 284-391 and 544-560)
UploadResponds(r) ==
  /\ pvPc = "upload"
  /\ UNCHANGED <<file, lastWait, uploads, polls, statusKind, ticks>>
  /\ IF r.kind = "reject" THEN
       /\ AttemptFailed("Failed to fetch")
       /\ UNCHANGED <<statusCheckCount, responseData>>
     ELSE IF r.kind = "badjson" THEN
       /\ AttemptFailed("Invalid JSON response")
       /\ UNCHANGED <<statusCheckCount, responseData>>
     ELSE IF r.kind = "httperr" THEN
       /\ AttemptFailed(IF r.detail # Undefined THEN r.detail
                        ELSE "Failed to upload file")
       /\ UNCHANGED <<statusCheckCount, responseData>>
     ELSE IF r.error # Undefined THEN
       /\ AttemptFailed(r.error)
       /\ UNCHANGED <<statusCheckCount, responseData>>
     ELSE IF file.type = PdfMime /\ r.document_id # Undefined THEN
       /\ Return("pdf",
                 [id |-> r.document_id, document_id |-> r.document_id,
                  url |-> <<"blob:", file.name>>, apiUrl |-> <<>>,
                  isPowerPoint |-> FALSE],
                 FALSE)
       /\ UNCHANGED <<retryCount, lastError, statusCheckCount, responseData>>
     ELSE IF file.type \in {PptMime, PptxMime} /\ r.document_id # Undefined THEN
       /\ Return("powerpoint",
                 [id |-> r.document_id, document_id |-> r.document_id,
                  url |-> <<"https://view.officeapps.live.com/op/embed.aspx?src=",
                            ApiUrl, "api", "presentations", "file", r.document_id>>,
                  apiUrl |-> <<>>, isPowerPoint |-> TRUE],
                 TRUE)
       /\ UNCHANGED <<retryCount, lastError, statusCheckCount, responseData>>
     ELSE IF NeedsPolling(r) THEN
       /\ statusCheckCount' = 0
       /\ responseData' = r
       /\ pvPc' = "pollWait" /\ timer' = PollDelayMs
       /\ UNCHANGED <<pvState, retryCount, lastError, exitPath, iframePending>>
     ELSE IF r.url # Undefined THEN
       /\ Return("direct",
                 [id |-> Undefined, document_id |-> r.document_id,
                  url |-> <<ApiUrl, r.url>>, apiUrl |-> <<>>,
                  isPowerPoint |-> FALSE],
                 TRUE)
       /\ UNCHANGED <<retryCount, lastError, statusCheckCount, responseData>>
     ELSE
       /\ AttemptFailed("No URL or status check URL returned from server")
       /\ UNCHANGED <<statusCheckCount, responseData>>

\* setTimeout(resolve, 2000) elapses and the status fetch is issued
\* (lines 391-403)
PollTimerFires ==
  /\ pvPc = "pollWait"
  /\ pvPc' = "pollFetch" /\ lastWait' = timer /\ timer' = 0
  /\ polls' = polls + 1
  /\ UNCHANGED <<pvState, pvLocals, exitPath, uploads, statusKind, ticks,
                 iframePending>>

\* faulty variant: a failed status check only counts as one more unfinished poll
StatusCheckIgnored ==
  /\ pvPc' = "pollWait" /\ timer' = PollDelayMs
  /\ UNCHANGED <<pvState, pvLocals, exitPath, iframePending>>

\* catch (statusErr) of the status check (lines 519-526): wait 5 s
StatusCheckFailed ==
  /\ pvPc' = "fallbackWait" /\ timer' = FallbackDelayMs
  /\ UNCHANGED <<pvState, pvLocals, exitPath, iframePending>>

\* statusData reports a finished document with something to show
StatusComplete(s) ==
  /\ s.status \in {"complete", "completed"}
  /\ (s.url # Undefined \/ s.files \notin {"none", "empty"})

\* documentUrl of lines 433-457 ("" when none is found)
DocumentUrl(s) ==
  IF s.url # Undefined THEN <<s.url>>
  ELSE CASE s.files = "string" -> <<"/files/presentation.pdf">>
         [] s.files = "object" -> <<"/files/object-url.pdf">>
         [] s.files = "other"  -> <<"/static/presentations", s.document_id, "first">>
         [] OTHER              -> <<>>

\* documentUrl.startsWith('http') ? documentUrl : apiUrl + documentUrl
ApiEndpointUrl(u) ==
  IF u = <<"http://cdn/p.pdf">> THEN u ELSE <<ApiUrl>> \o u

\* the status fetch settles (lines 405-543)
StatusResponds(s) ==
  /\ pvPc = "pollFetch"
  /\ statusKind' = (IF s.kind = "ok" THEN s.status ELSE s.kind)
  /\ UNCHANGED <<lastWait, uploads, polls, ticks>>
  /\ IF s.kind # "ok" THEN
       StatusCheckFailed
     ELSE IF StatusComplete(s) THEN
       IF DocumentUrl(s) = <<>>
       THEN StatusCheckFailed       \* 'No document URL found in response'
       ELSE /\ Return("polled",
                      [id |-> Undefined, document_id |-> s.document_id,
                       url |-> <<ApiUrl, "static", "presentations",
                                 s.document_id, "presentation.pdf">>,
                       apiUrl |-> ApiEndpointUrl(DocumentUrl(s)),
                       isPowerPoint |-> FALSE],
                      TRUE)
            /\ UNCHANGED pvLocals
     ELSE IF s.status = "error" THEN
       StatusCheckFailed            \* thrown inside the status try block
     ELSE IF statusCheckCount >= SlowCheckThreshold /\ s.status = "processing"
             /\ file.type = PdfMime THEN
       /\ Return("slowpdf",
                 [id |-> s.document_id, document_id |-> s.document_id,
                  url |-> <<ApiUrl, "static", "uploads", s.document_id, ".pdf">>,
                  apiUrl |-> <<ApiUrl, "static", "uploads", s.document_id, ".pdf">>,
                  isPowerPoint |-> FALSE],
                 TRUE)
       /\ UNCHANGED pvLocals
     ELSE IF statusCheckCount + 1 < maxStatusChecks THEN
       /\ statusCheckCount' = statusCheckCount + 1
       /\ pvPc' = "pollWait" /\ timer' = PollDelayMs
       /\ UNCHANGED <<pvState, file, retryCount, lastError, responseData,
                      exitPath, iframePending>>
     ELSE
       /\ statusCheckCount' = statusCheckCount + 1
       /\ AttemptFailed("Document processing timed out")
       /\ UNCHANGED <<file, responseData>>

\* the 5 s wait elapses: present the guessed URL (lines 528-537)
FallbackTimerFires ==
  /\ pvPc = "fallbackWait"
  /\ lastWait' = timer
  /\ Return("fallback",
            [id |-> Undefined, document_id |-> responseData.document_id,
             url |-> <<ApiUrl, "static", "presentations",
                       responseData.document_id, "document.pdf">>,
             apiUrl |-> <<>>, isPowerPoint |-> FALSE],
            TRUE)
  /\ UNCHANGED <<pvLocals, pvObs>>

\* the backoff wait elapses: next iteration of the retry loop (line 284)
BackoffTimerFires ==
  /\ pvPc = "backoff"
  /\ pvPc' = "upload" /\ lastWait' = timer /\ timer' = 0
  /\ uploads' = uploads + 1
  /\ UNCHANGED <<pvState, pvLocals, exitPath, polls, statusKind, ticks,
                 iframePending>>

\* the 150 ms progress interval (lines 221-242)
ProgressTick ==
  /\ uploading /\ uploadProgress < ProgressFull
  /\ ticks < MaxTicks
  /\ uploadProgress' = NextProgress(uploadProgress)
  /\ ticks' = ticks + 1
  /\ UNCHANGED <<uploading, error, presentation, iframeLoading, iframeError,
                 viewerRetryCount, pvLocals, pvCtl, uploads, polls, statusKind,
                 iframePending>>

\* ---- the viewer (lines 671-697, 746-837) ----
\* onLoad of the rendered iframe
IframeLoad ==
  /\ IframeRendered(presentation, iframeLoading, iframeError) /\ iframePending
  /\ iframeLoading' = FALSE
  /\ iframePending' = FALSE
  /\ UNCHANGED <<uploading, uploadProgress, error, presentation, iframeError,
                 viewerRetryCount, pvLocals, pvCtl, pvObs>>

\* onError of the rendered iframe
IframeLoadError ==
  /\ IframeRendered(presentation, iframeLoading, iframeError) /\ iframePending
  /\ iframeError' = (IF presentation.isPowerPoint
                     THEN "Failed to load PowerPoint. Please try again."
                     ELSE "Failed to load PDF. Please try again.")
  /\ iframeLoading' = FALSE
  /\ iframePending' = FALSE
  /\ UNCHANGED <<uploading, uploadProgress, error, presentation,
                 viewerRetryCount, pvLocals, pvCtl, pvObs>>

\* prev.url.includes('blob:') ? prev.url : prev.url + '?refresh=' + Date.now()
RefreshedUrl(u) == IF u[1] = "blob:" THEN u ELSE Append(u, "?refresh")

\* the 'Try Again' button, shown with the iframeError banner
retryLoad ==
  /\ presentation # NoPresentation /\ iframeError # Null
  /\ iframeLoading' = TRUE
  /\ iframeError' = Null
  /\ presentation' = [presentation EXCEPT !.url = RefreshedUrl(@)]
  /\ iframePending' = FALSE
  /\ UNCHANGED <<uploading, uploadProgress, error, viewerRetryCount, pvLocals,
                 pvCtl, pvObs>>

\* the 'Upload Another' button (lines 754-764)
UploadAnother ==
  /\ presentation # NoPresentation
  /\ presentation' = NoPresentation
  /\ iframeError' = Null /\ viewerRetryCount' = 0 /\ iframeLoading' = FALSE
  /\ iframePending' = FALSE
  /\ pvPc' = "idle" /\ exitPath' = "none"
  /\ UNCHANGED <<uploading, uploadProgress, error, pvLocals, timer, lastWait,
                 pvObs>>

(***************************************************************************)
(* TransformPage                                                           *)
(***************************************************************************)
\* A text is its length and whether it holds nothing but white space.
NullText  == [len |-> -1, blank |-> TRUE]
EmptyText == [len |-> 0, blank |-> TRUE]
TextsAround(limit) ==
  {EmptyText} \cup [len : {1, limit} \cup (limit + 1 .. limit + MaxOver),
                    blank : BOOLEAN]

\* faulty variant: only the empty string counts as no text
TrimIsEmptyLengthOnly(t) == t.len = 0

\* !text.trim()
TrimIsEmpty(t) == t.blank

MaxInputChars == 250
TpTexts == TextsAround(MaxInputChars)

TransformationTypes == {"simplify", "sophisticate", "casualise", "formalise"}

\* faulty variant: a sixth level is offered
getLevelOptionsSix(type) ==
  IF type \in TransformationTypes THEN {"1", "2", "3", "4", "5", "6"} ELSE {}

\* getLevelOptions(type).map(option => option.value)
getLevelOptions(type) ==
  IF type \in TransformationTypes THEN {"1", "2", "3", "4", "5"} ELSE {}

\* the values an <option> of the level <select> may carry
LevelValues == {"0", "1", "2", "3", "4", "5", "6"}

parseInt(str) ==
  CASE str = "0" -> 0
    [] str = "1" -> 1 [] str = "2" -> 2 [] str = "3" -> 3
    [] str = "4" -> 4 [] str = "5" -> 5 [] str = "6" -> 6

\* messages are sequences of string parts; <<Null>> stands for null and <<>>
\* for the empty string
NoMessage == <<Null>>
Shown(msg) == msg # NoMessage /\ msg # <<>>
NoClosure == [none |-> TRUE]
NoRequest == [none |-> TRUE]

\* ---- rateLimiter ----
requestInterval == 60000
ClockStepMs == requestInterval \div 2

\* this.requests.filter(timestamp => now - timestamp < this.requestInterval)
Recent(reqs, t) ==
  SelectSeq(reqs, LAMBDA ts : t - ts < requestInterval)

canMakeRequest(reqs, t) == Len(Recent(reqs, t)) < maxRequestsPerMinute

SeqMin(q) == CHOOSE m \in {q[i] : i \in 1..Len(q)} :
               \A i \in 1..Len(q) : m <= q[i]

getTimeUntilNextRequest(reqs, t) ==
  IF canMakeRequest(reqs, t) THEN 0
  ELSE requestInterval - (t - SeqMin(Recent(reqs, t)))

\* Math.ceil(ms / 1000)
CeilSeconds(ms) == (ms + 999) \div 1000

\* faulty variant: addRequest that filters and pushes nothing
addRequestNoPush(reqs, t) == Recent(reqs, t)

addRequest(reqs, t) == Append(Recent(reqs, t), t)

\* the value of the record of send times where none is kept
NotRecorded == <<-1>>

\* the latest MaxConfiguredLimit + 1 entries of a record of send times
Latest(q) ==
  IF Len(q) <= MaxConfiguredLimit + 1 THEN q
  ELSE SubSeq(q, Len(q) - MaxConfiguredLimit, Len(q))

\* ---- ApiService.request (services/api.ts) ----
\* what fetch and the server may answer to POST /transform
ApiBody(st, b, t, m, d) ==
  [kind |-> "http", status |-> st, body |-> b, transformedText |-> t,
   message |-> m, detail |-> d]

ApiResponses ==
  { [kind |-> "reject"],
    ApiBody(200, "json", "T", Undefined, Undefined),
    ApiBody(200, "json", Undefined, Undefined, Undefined),
    ApiBody(200, "badjson", Undefined, Undefined, Undefined),
    ApiBody(500, "badjson", Undefined, Undefined, Undefined),
    ApiBody(500, "json", Undefined, Undefined, Undefined),
    ApiBody(500, "json", Undefined, "Upstream failure", Undefined),
    ApiBody(500, "json", Undefined, Undefined,
            "OpenAI API error: Connection error"),
    ApiBody(400, "json", Undefined, Undefined, Undefined),
    ApiBody(400, "json", Undefined, "Bad request", "Connection error") }

\* the ApiError carried by the ApiRequestError that request() throws
\* (NoRequest when it returns data)
ApiErrorOf(r) ==
  IF r.kind = "reject" THEN
    [status |-> 500, message |-> "Connection error",
     detail |-> "Failed to connect to the API"]
  ELSE IF r.body = "badjson" THEN
    [status |-> r.status, message |-> "Failed to parse server response",
     detail |-> "Unexpected token"]
  ELSE IF r.status = 200 THEN NoRequest
  ELSE IF r.status = 500 THEN
    [status |-> 500, message |-> "Server error",
     detail |-> IF r.detail # Undefined THEN r.detail
                ELSE IF r.message # Undefined THEN r.message
                ELSE "The server encountered an internal error"]
  ELSE
    [status |-> r.status,
     message |-> IF r.message # Undefined THEN r.message
                 ELSE "An error occurred",
     detail |-> IF r.detail # Undefined THEN r.detail
                ELSE "Server returned status"]

\* errorDetail.includes(needle)
Includes(detail, needle) ==
  \/ detail = needle
  \/ detail = "OpenAI API error: Connection error" /\ needle = "Connection error"
  \/ detail = "Failed to connect to the API" /\ needle = "Failed to connect"

\* the message the inner catch sets for an ApiRequestError (lines 161-191)
InnerApiMessage(e) ==
  LET errorMessage ==
        IF Includes(e.detail, "OpenAI API error: Connection error")
          THEN <<"OpenAI API Connection Error">>
        ELSE IF e.status = 500
          THEN <<"Server error: ", e.message, ". Our team has been notified">>
        ELSE <<e.message>>
      troubleshooting ==
        IF Includes(e.detail, "OpenAI API error: Connection error")
          THEN <<"troubleshooting: OpenAI">>
        ELSE IF e.status = 500 THEN <<"troubleshooting: server">>
        ELSE IF Includes(e.detail, "Connection error")
                \/ Includes(e.detail, "Failed to connect")
          THEN <<"troubleshooting: connection">>
        ELSE <<>>
  IN errorMessage \o <<"Details: ", e.detail>> \o troubleshooting

\* the message the outer catch sets for an ApiRequestError (line 208)
OuterApiMessage(e) == <<e.detail>>

\* ---- getAccessTokenSilently ----
\* ok, a rejection with an Error of the given message, or with a non-Error
TokenResults ==
  { [kind |-> "ok"], [kind |-> "thrown"] }
  \cup [kind : {"error"},
        message : {"Missing Refresh Token", "invalid_grant", "Login required", ""}]

TokenExpired(t) ==
  t.kind = "error" /\ t.message \in {"Missing Refresh Token", "invalid_grant"}

\* the message the outer catch sets for a token failure (lines 209-213)
OuterTokenMessage(t) ==
  IF t.kind = "error"
  THEN IF t.message # "" THEN <<t.message>>
       ELSE <<"An unexpected error occurred">>
  ELSE <<"An unexpected error occurred. Please try again.">>

InitTransform ==
  /\ inputText = EmptyText /\ outputText = ""
  /\ transformType = "simplify" /\ transformLevel = "3"
  /\ isLoading = FALSE /\ tpError = NoMessage /\ isTestingConnection = FALSE
  /\ requests = <<>> /\ maxRequestsPerMinute \in 1..MaxConfiguredLimit
  /\ now = 0 /\ sent = NotRecorded
  /\ tpPc = "idle" /\ closure = NoClosure /\ tpRequest = NoRequest
  /\ tpOutcome = "none"
  /\ testPc = "idle"

\* "done" is the state right after handleTransform has finished; the next
\* event of the page leaves it
AfterDone ==
  /\ tpPc' = (IF tpPc = "done" THEN "idle" ELSE tpPc)
  /\ tpOutcome' = (IF tpPc = "done" THEN "none" ELSE tpOutcome)
  /\ UNCHANGED <<closure, tpRequest, loginRedirects>>

\* ---- user input ----
\* textarea onChange (lines 232-238); the textarea is disabled while loading
TypeText(t) ==
  /\ ~isLoading
  /\ IF t.len <= MaxInputChars
     THEN inputText' = t /\ tpError' = NoMessage
     ELSE UNCHANGED <<inputText, tpError>>
  /\ UNCHANGED <<outputText, transformType, transformLevel, isLoading,
                 isTestingConnection, tpLimiter, testPc>>
  /\ AfterDone

\* the type <select> (lines 261-267)
SelectType(ty) ==
  /\ ~isLoading
  /\ transformType' = ty
  /\ UNCHANGED <<inputText, outputText, transformLevel, isLoading, tpError,
                 isTestingConnection, tpLimiter, testPc>>
  /\ AfterDone

\* the level <select>, whose options come from getLevelOptions (lines 273-285)
SelectLevel(lv) ==
  /\ ~isLoading
  /\ lv \in getLevelOptions(transformType)
  /\ transformLevel' = lv
  /\ UNCHANGED <<inputText, outputText, transformType, isLoading, tpError,
                 isTestingConnection, tpLimiter, testPc>>
  /\ AfterDone

\* the 'Clear Message' button, rendered while error is set (lines 335-342)
ClearMessage ==
  /\ Shown(tpError)
  /\ tpError' = NoMessage
  /\ UNCHANGED <<inputText, outputText, transformType, transformLevel,
                 isLoading, isTestingConnection, tpLimiter, testPc>>
  /\ AfterDone

\* time passes
AdvanceClock ==
  /\ now < MaxClockSteps * ClockStepMs
  /\ now' = now + ClockStepMs
  /\ UNCHANGED <<tpState, requests, maxRequestsPerMinute, sent, testPc>>
  /\ AfterDone

\* ---- handleTransform ----
\* the call up to its first await (lines 101-132); a return inside the try
\* still runs the finally block
handleTransform ==
  /\ transformType' = transformType /\ transformLevel' = transformLevel
  /\ inputText' = inputText /\ outputText' = outputText
  /\ UNCHANGED <<isTestingConnection, maxRequestsPerMinute, now, sent, testPc,
                 loginRedirects>>
  /\ tpRequest' = NoRequest
  /\ IF TrimIsEmpty(inputText) THEN
       /\ tpError' = <<"Please enter some text to transform">>
       /\ isLoading' = FALSE
       /\ tpPc' = "done" /\ tpOutcome' = "blank" /\ closure' = NoClosure
       /\ UNCHANGED requests
     ELSE IF inputText.len > MaxInputChars THEN
       /\ tpError' = <<"Text cannot exceed 250 characters">>
       /\ isLoading' = FALSE
       /\ tpPc' = "done" /\ tpOutcome' = "toolong" /\ closure' = NoClosure
       /\ UNCHANGED requests
     ELSE IF ~canMakeRequest(requests, now) THEN
       /\ requests' = Recent(requests, now)
       /\ tpError' = <<"Please wait ",
                       ToString(CeilSeconds(getTimeUntilNextRequest(requests, now))),
                       " seconds before trying again">>
       /\ isLoading' = FALSE
       /\ tpPc' = "done" /\ tpOutcome' = "ratelimited" /\ closure' = NoClosure
     ELSE
       /\ requests' = Recent(requests, now)
       /\ isLoading' = TRUE
       /\ tpError' = NoMessage
       /\ closure' = [inputText |-> inputText, error |-> tpError,
                      transformType |-> transformType,
                      transformLevel |-> transformLevel]
       /\ tpPc' = "token" /\ tpOutcome' = "none"

\* the Transform button (lines 314-316)
ClickTransform ==
  /\ ~(TrimIsEmpty(inputText) \/ isLoading \/ isTestingConnection)
  /\ handleTransform

\* the Ctrl+Enter shortcut (lines 23-34)
PressCtrlEnter ==
  /\ ~isLoading /\ ~TrimIsEmpty(inputText)
  /\ handleTransform

\* faulty variant: the outer catch without the finally block
OuterCatchNoFinally(current, message) ==
  /\ tpError' = (IF closure.error = NoMessage \/ closure.error = <<>>
                 THEN message ELSE current)
  /\ outputText' = ""
  /\ UNCHANGED isLoading

\* the outer catch and the finally block (lines 198-219)
OuterCatch(current, message) ==
  /\ tpError' = (IF closure.error = NoMessage \/ closure.error = <<>>
                 THEN message ELSE current)
  /\ outputText' = ""
  /\ isLoading' = FALSE

\* getAccessTokenSilently settles (lines 127-152, then the request is sent)
TokenSettles(t) ==
  /\ tpPc = "token"
  \* useAuth0() hands the page getAccessTokenSilently only (line 13): no
  \* branch of the handler calls loginWithRedirect
  /\ UNCHANGED <<inputText, transformType, transformLevel, isTestingConnection,
                 requests, maxRequestsPerMinute, now, testPc, loginRedirects>>
  /\ sent' = (IF t.kind = "ok" /\ sent # NotRecorded
               THEN Latest(Append(sent, now)) ELSE sent)
  /\ IF t.kind = "ok" THEN
       /\ tpRequest' = [text |-> closure.inputText,
                        transformationType |-> closure.transformType,
                        level |-> parseInt(closure.transformLevel)]
       /\ tpPc' = "api"
       /\ UNCHANGED <<outputText, isLoading, tpError, closure, tpOutcome>>
     ELSE IF TokenExpired(t) THEN
       /\ tpError' = <<"Authentication session expired. Please log out and log back in.">>
       /\ isLoading' = FALSE
       /\ tpPc' = "done" /\ tpOutcome' = "expired"
       /\ closure' = NoClosure
       /\ UNCHANGED <<outputText, tpRequest>>
     ELSE
       /\ OuterCatch(tpError, OuterTokenMessage(t))
       /\ tpPc' = "done" /\ tpOutcome' = "tokenfail"
       /\ closure' = NoClosure
       /\ UNCHANGED tpRequest

\* apiService.transformText settles (lines 154-219)
ApiSettles(r) ==
  /\ tpPc = "api"
  /\ UNCHANGED <<inputText, transformType, transformLevel, isTestingConnection,
                 maxRequestsPerMinute, now, sent, testPc, loginRedirects>>
  /\ tpRequest' = NoRequest /\ closure' = NoClosure
  /\ IF ApiErrorOf(r) = NoRequest THEN
       /\ outputText' = r.transformedText
       /\ requests' = addRequest(requests, now)
       /\ isLoading' = FALSE
       /\ tpPc' = "done" /\ tpOutcome' = "ok"
       /\ UNCHANGED tpError
     ELSE
       /\ OuterCatch(InnerApiMessage(ApiErrorOf(r)),
                     OuterApiMessage(ApiErrorOf(r)))
       /\ tpPc' = "done" /\ tpOutcome' = "apifail"
       /\ UNCHANGED requests

\* ---- testApiConnection (lines 37-59) ----
ClickTestConnection ==
  /\ ~(isLoading \/ isTestingConnection)
  /\ isTestingConnection' = TRUE
  /\ tpError' = NoMessage
  /\ testPc' = "fetch"
  /\ UNCHANGED <<inputText, outputText, transformType, transformLevel,
                 isLoading, tpLimiter>>
  /\ AfterDone

HealthSettles(h) ==
  /\ testPc = "fetch"
  /\ tpError' = (CASE h = "ok"    -> <<"API connection successful">>
                   [] h = "notok" -> <<"API server is reachable but returned status">>
                   [] OTHER       -> <<"Cannot connect to API server">>)
  /\ isTestingConnection' = FALSE
  /\ testPc' = "idle"
  /\ UNCHANGED <<inputText, outputText, transformType, transformLevel,
                 isLoading, tpLimiter>>
  /\ AfterDone

(***************************************************************************)
(* The lecture pages                                                       *)
(***************************************************************************)
CHARACTER_LIMIT == 1000
LpTexts == TextsAround(CHARACTER_LIMIT)

\* a string that is neither null nor ''
Truthy(t) == t # NullText /\ t.len > 0

\* faulty variant: the guard without the limit
PassesGuardNoLimit(text, over) == Truthy(text)

\* if (!currentText || isOverLimit) return;
PassesGuard(text, over) == ~(~Truthy(text) \/ over)

NewCall(text) == [pc |-> "token", text |-> text, data |-> Undefined]

RemoveAt(q, i) == SubSeq(q, 1, i - 1) \o SubSeq(q, i + 1, Len(q))

InitLecture ==
  /\ variant \in {"components", "part_003", "pages"}
  /\ currentText = NullText /\ characterCount = 0 /\ isOverLimit = FALSE
  /\ lpIsLoading = FALSE /\ lpError = NoMessage /\ lpOutputText = ""
  /\ seenOverLimit = {FALSE}
  /\ calls = <<>> /\ loginTimers = 0

\* the page is gone once loginWithRedirect has navigated away
Mounted == loginRedirects = 0

\* the call up to its first await: setIsLoading(true), setError(null), then
\* getAccessTokenSilently is pending (pages/LecturePage.tsx has no error state)
StartCall(text) ==
  /\ Len(calls) + loginTimers < MaxCalls
  /\ lpIsLoading' = TRUE
  /\ lpError' = NoMessage
  /\ calls' = Append(calls, NewCall(text))

\* handleTransform(text), the onTextLoaded / onTextSelect callback; over is
\* the isOverLimit of the render whose handler the caller holds
LpHandleTransform(text, over) ==
  /\ Mounted
  /\ over \in seenOverLimit
  /\ currentText' = text
  /\ characterCount' = text.len
  /\ isOverLimit' = (text.len > CHARACTER_LIMIT)
  /\ seenOverLimit' = seenOverLimit \cup {text.len > CHARACTER_LIMIT}
  /\ UNCHANGED <<variant, lpOutputText, loginTimers, loginRedirects>>
  /\ IF variant = "pages"
     THEN IF text.len <= CHARACTER_LIMIT /\ PassesGuard(text, over)
          THEN StartCall(text)
          ELSE UNCHANGED <<lpIsLoading, lpError, calls>>
     ELSE /\ lpError' = NoMessage
          /\ UNCHANGED <<lpIsLoading, calls>>

\* handleGenerateTransform() / generateTransform() of the current render
generateTransform ==
  /\ Mounted
  /\ UNCHANGED <<variant, currentText, characterCount, isOverLimit,
                 seenOverLimit, lpOutputText, loginTimers, loginRedirects>>
  /\ IF PassesGuard(currentText, isOverLimit)
     THEN StartCall(currentText)
     ELSE UNCHANGED <<lpIsLoading, lpError, calls>>

\* err.message?.includes('Missing Refresh Token')
IsMissingRefreshToken(message) == message = "Missing Refresh Token"

\* the catch and finally blocks of call i
LpCatch(i, message) ==
  /\ calls' = RemoveAt(calls, i)
  /\ lpIsLoading' = FALSE
  /\ UNCHANGED <<currentText, characterCount, isOverLimit>>
  /\ IF variant = "pages" THEN
       /\ lpOutputText' = "Error processing text. Please try again."
       /\ UNCHANGED <<lpError, loginTimers>>
     ELSE IF IsMissingRefreshToken(message) THEN
       /\ lpError' = <<"Your session has expired. Please log in again.">>
       /\ loginTimers' = loginTimers + 1
       /\ UNCHANGED lpOutputText
     ELSE
       /\ lpError' = <<"Unable to process text at the moment. Please try again.">>
       /\ UNCHANGED <<lpOutputText, loginTimers>>

\* setOutputText(transformedText) and the finally block of call i
LpSuccess(i, text) ==
  /\ calls' = RemoveAt(calls, i)
  /\ lpOutputText' = text
  /\ lpIsLoading' = FALSE
  /\ UNCHANGED <<currentText, characterCount, isOverLimit, lpError, loginTimers>>

\* getAccessTokenSilently of call i settles; on success the request is sent
LpTokenSettles(i, t) ==
  /\ Mounted
  /\ i \in 1..Len(calls) /\ calls[i].pc = "token"
  /\ UNCHANGED <<variant, seenOverLimit, loginRedirects>>
  /\ IF t.kind = "ok"
     THEN /\ calls' = [calls EXCEPT ![i].pc = "fetch"]
          /\ UNCHANGED <<lpState, loginTimers>>
     ELSE LpCatch(i, IF t.kind = "error" THEN t.message ELSE Undefined)

\* the transform request of call i settles
LpFetchSettles(i, r) ==
  /\ Mounted
  /\ i \in 1..Len(calls) /\ calls[i].pc = "fetch"
  /\ UNCHANGED <<variant, seenOverLimit, loginRedirects>>
  /\ IF variant = "components" THEN
       \* apiService.transformText
       IF ApiErrorOf(r) = NoRequest
       THEN LpSuccess(i, r.transformedText)
       ELSE LpCatch(i, ApiErrorOf(r).message)
     ELSE IF r.kind = "reject" THEN LpCatch(i, "Failed to fetch")
     ELSE IF variant = "part_003" THEN
       IF r.body = "badjson" THEN LpCatch(i, "Unexpected token")
       ELSE IF r.status # 200
         THEN LpCatch(i, IF r.detail # Undefined THEN r.detail
                         ELSE "Transform request failed")
       ELSE /\ calls' = [calls EXCEPT ![i].pc = "delay",
                                      ![i].data = r.transformedText]
            /\ UNCHANGED <<lpState, loginTimers>>
     ELSE
       IF r.status # 200 THEN LpCatch(i, "Transform request failed")
       ELSE IF r.body = "badjson" THEN LpCatch(i, "Unexpected token")
       ELSE LpSuccess(i, r.transformedText)

\* the 300 ms delay before setOutputText (part_003, line 141)
LpDelayFires(i) ==
  /\ Mounted
  /\ i \in 1..Len(calls) /\ calls[i].pc = "delay"
  /\ UNCHANGED <<variant, seenOverLimit, loginRedirects>>
  /\ LpSuccess(i, calls[i].data)

\* the 2000 ms timer of the catch block fires: loginWithRedirect
LpLoginTimerFires ==
  /\ Mounted
  /\ loginTimers > 0
  /\ loginTimers' = loginTimers - 1
  /\ loginRedirects' = loginRedirects + 1
  /\ UNCHANGED <<variant, lpState, seenOverLimit, calls>>

NextLecture ==
  \/ \E t \in LpTexts, o \in BOOLEAN : LpHandleTransform(t, o) /\ UNCHANGED exceptLecture
  \/ generateTransform /\ UNCHANGED exceptLecture
  \/ \E i \in 1..MaxCalls, t \in TokenResults : LpTokenSettles(i, t) /\ UNCHANGED exceptLecture
  \/ \E i \in 1..MaxCalls, r \in ApiResponses : LpFetchSettles(i, r) /\ UNCHANGED exceptLecture
  \/ \E i \in 1..MaxCalls : LpDelayFires(i) /\ UNCHANGED exceptLecture
  \/ LpLoginTimerFires /\ UNCHANGED exceptLecture

(***************************************************************************)
(* App: routes and route guards                                            *)
(***************************************************************************)
Paths == {"/", "/callback", "/transform", "/lecture", "/login"}
publicPaths    == {"/", "/callback"}
protectedPaths == {"/transform", "/lecture"}

InitApp ==
  /\ appVariant \in {"App", "part_007", "older"}
  /\ isAuthenticated = FALSE /\ authLoading = TRUE
  /\ pathname \in Paths
  /\ redirecting = FALSE /\ redirectingToLogin = FALSE
  /\ leaving = FALSE
  /\ session \in BOOLEAN
  /\ history = <<>>

\* faulty variant: ProtectedRoute shows its children whatever the auth state
ProtectedRouteOpen(page) == page

\* what ProtectedRoute renders around a page
ProtectedRoute(page) ==
  IF appVariant = "App" THEN
    IF authLoading \/ redirectingToLogin \/ ~isAuthenticated THEN "Loading"
    ELSE page
  ELSE
    IF authLoading THEN "Loading"
    ELSE IF ~isAuthenticated THEN "Navigate" ELSE page

\* what the application shows: a page, a loading screen, nothing, or a
\* <Navigate> element that is about to change the location
View ==
  IF appVariant = "App" THEN
    IF authLoading \/ redirecting THEN "Loading"
    ELSE CASE pathname = "/" -> (IF isAuthenticated THEN "Nothing" ELSE "TryClarity")
           [] pathname = "/callback"  -> "Callback"
           [] pathname = "/transform" -> ProtectedRoute("TransformPage")
           [] pathname = "/lecture"   -> ProtectedRoute("LecturePage")
           [] OTHER               -> "Navigate"
  ELSE IF appVariant = "part_007" THEN
    IF authLoading THEN "Loading"
    ELSE CASE pathname = "/" -> (IF isAuthenticated THEN "Navigate" ELSE "TryClarity")
           [] pathname = "/callback"  -> "Callback"
           [] pathname = "/transform" ->
                (IF isAuthenticated THEN "TransformPage" ELSE "Navigate")
           [] pathname = "/lecture"   ->
                (IF isAuthenticated THEN "LecturePage" ELSE "Navigate")
           [] OTHER               -> "Navigate"
  ELSE
    CASE pathname = "/"            -> "TryClarity"
      [] pathname = "/transform"   -> ProtectedRoute("TransformPage")
      [] pathname = "/callback"    -> "AuthError"
      [] OTHER                 -> "Nothing"

\* where the rendered <Navigate> element leads
NavigateTarget ==
  IF appVariant = "App" THEN (IF isAuthenticated THEN "/transform" ELSE "/")
  ELSE IF appVariant = "part_007" THEN
    (IF isAuthenticated THEN "/lecture" ELSE "/")
  ELSE "/"

\* Auth0 finishes its initial check
AuthSettles ==
  /\ ~leaving /\ authLoading
  /\ authLoading' = FALSE
  /\ isAuthenticated' = session
  /\ UNCHANGED <<appVariant, pathname, redirecting, redirectingToLogin, leaving,
                 loginRedirects, session, history>>

\* a rendered <Navigate to=... />
NavigateElement ==
  /\ ~leaving /\ View = "Navigate"
  /\ pathname' = NavigateTarget
  /\ UNCHANGED <<appVariant, isAuthenticated, authLoading, redirecting,
                 redirectingToLogin, leaving, loginRedirects, session,
                 history>>

\* the effects of one commit of App.tsx: ProtectedRoute's (child) effect
\* calls loginWithRedirect, then the global route guard redirects
GuardEffect ==
  /\ ~leaving /\ appVariant = "App"
  /\ ~(authLoading \/ redirecting)
  /\ IF isAuthenticated /\ pathname \in publicPaths /\ pathname # "/callback" THEN
       /\ redirecting' = TRUE
       /\ pathname' = "/transform"
       /\ UNCHANGED <<redirectingToLogin, leaving, loginRedirects>>
     ELSE IF ~isAuthenticated /\ pathname \in protectedPaths THEN
       /\ redirectingToLogin' = TRUE
       /\ loginRedirects' = loginRedirects + 1
       /\ leaving' = TRUE
       /\ redirecting' = TRUE
       /\ pathname' = "/"
     ELSE
       \* setRedirecting(false) while redirecting is false
       /\ UNCHANGED <<redirecting, pathname, redirectingToLogin, leaving,
                      loginRedirects>>
  /\ UNCHANGED <<appVariant, isAuthenticated, authLoading, session, history>>

\* the route guard of part_007
SimplifiedGuardEffect ==
  /\ ~leaving /\ appVariant = "part_007"
  /\ ~authLoading /\ isAuthenticated /\ pathname = "/"
  /\ pathname' = "/lecture"
  /\ UNCHANGED <<appVariant, isAuthenticated, authLoading, redirecting,
                 redirectingToLogin, leaving, loginRedirects, session,
                 history>>

\* the effect of the Callback page: err is the presence of an ?error=
\* parameter
CallbackEffect(err) ==
  /\ ~leaving /\ View = "Callback"
  /\ IF err THEN pathname' = "/login"
     ELSE /\ ~authLoading /\ isAuthenticated
          /\ pathname' = "/transform"
  /\ UNCHANGED <<appVariant, isAuthenticated, authLoading, redirecting,
                 redirectingToLogin, leaving, loginRedirects, session,
                 history>>

\* a link of a rendered page pushes the location it leaves
FollowLink(p) ==
  /\ ~leaving
  /\ View \in {"TransformPage", "LecturePage", "TryClarity"}
  /\ Len(history) < MaxHistory
  /\ pathname' = p
  /\ history' = Append(history, pathname)
  /\ UNCHANGED <<appVariant, isAuthenticated, authLoading, redirecting,
                 redirectingToLogin, leaving, loginRedirects, session>>

\* the browser's back button
Back ==
  /\ ~leaving /\ history # <<>>
  /\ pathname' = history[Len(history)]
  /\ history' = SubSeq(history, 1, Len(history) - 1)
  /\ UNCHANGED <<appVariant, isAuthenticated, authLoading, redirecting,
                 redirectingToLogin, leaving, loginRedirects, session>>

\* the browser loads the application at p: Auth0 is asked again and every
\* component state starts afresh
Load(p) ==
  /\ pathname' = p
  /\ isAuthenticated' = FALSE /\ authLoading' = TRUE
  /\ redirecting' = FALSE /\ redirectingToLogin' = FALSE
  /\ leaving' = FALSE /\ loginRedirects' = 0
  /\ history' = <<>>
  /\ UNCHANGED appVariant

\* the address bar or the reload button
LoadPage(p) == Load(p) /\ UNCHANGED session

\* the user signs in on the Auth0 page, which returns to /callback
LoginAtAuth0 ==
  /\ leaving \/ View = "TryClarity"
  /\ session' = TRUE
  /\ Load("/callback")

\* the user signs out from a page, which returns to the landing page
Logout ==
  /\ ~leaving /\ View \in {"TransformPage", "LecturePage"}
  /\ session' = FALSE
  /\ Load("/")

NextApp ==
  \/ AuthSettles /\ UNCHANGED exceptApp
  \/ NavigateElement /\ UNCHANGED exceptApp
  \/ GuardEffect /\ UNCHANGED exceptApp
  \/ SimplifiedGuardEffect /\ UNCHANGED exceptApp
  \/ \E e \in BOOLEAN : CallbackEffect(e) /\ UNCHANGED exceptApp
  \/ \E p \in Paths : FollowLink(p) /\ UNCHANGED exceptApp
  \/ Back /\ UNCHANGED exceptApp
  \/ \E p \in Paths : LoadPage(p) /\ UNCHANGED exceptApp
  \/ LoginAtAuth0 /\ UNCHANGED exceptApp
  \/ Logout /\ UNCHANGED exceptApp

(***************************************************************************)
(* FileUpload (components/lecture/LecturePage.tsx) and the file list of    *)
(* FileContext                                                             *)
(***************************************************************************)
MAX_FILE_SIZE == 20 * 1024 * 1024

TextMime == "text/plain"
DocMime  == "application/msword"
SUPPORTED_FORMATS ==
  {PdfMime, TextMime, DocMime, DocxMime, PptMime, PptxMime,
   "image/jpeg", "image/png", "image/gif", "image/webp", "text/html"}

\* the files a user may pick or drop: sizes around the limit, types inside
\* and outside the list
UserFiles ==
  [size : {MAX_FILE_SIZE - 1, MAX_FILE_SIZE, MAX_FILE_SIZE + 1},
   type : {PdfMime, TextMime, PptxMime, "image/png", "application/zip", ""}]

NoAlert == "none"

validateFile(f) ==
  IF f.size > MAX_FILE_SIZE THEN "File size exceeds 20MB limit"
  ELSE IF f.type \notin SUPPORTED_FORMATS THEN "Unsupported file format"
  ELSE Null

InitFileUpload ==
  /\ files = <<>> /\ fuPc = "idle" /\ fuPending = Null /\ fuAlert = NoAlert

\* the drop zone and the file input are rendered while the list is empty
DropZoneShown == files = <<>>

\* FileContext's uploadFile: addFile, whatever the file
uploadFile(f) == files' = Append(files, f)

\* the file input's onChange, up to its first await
handleFileChange(f) ==
  /\ DropZoneShown /\ fuPc = "idle"
  /\ IF validateFile(f) # Null THEN
       /\ fuAlert' = validateFile(f)
       /\ UNCHANGED <<files, fuPc, fuPending>>
     ELSE IF f.type = PdfMime THEN
       /\ fuPc' = "extract" /\ fuPending' = f
       /\ fuAlert' = NoAlert
       /\ UNCHANGED files
     ELSE
       /\ uploadFile(f)
       /\ fuAlert' = NoAlert
       /\ UNCHANGED <<fuPc, fuPending>>

\* extractPdfText settles: with a text, or with an error that is alerted
ExtractSettles(ok) ==
  /\ fuPc = "extract"
  /\ fuPc' = "idle" /\ fuPending' = Null
  /\ IF ok THEN uploadFile(fuPending) /\ UNCHANGED fuAlert
     ELSE /\ fuAlert' = "Failed to extract text from PDF"
          /\ UNCHANGED files

\* the drop zone's onDrop
handleFileDrop(f) ==
  /\ DropZoneShown
  /\ uploadFile(f)
  /\ UNCHANGED <<fuPc, fuPending, fuAlert>>

\* FileContext's removeFile, from the viewer of a listed file
removeFile(i) ==
  /\ i \in 1..Len(files)
  /\ files' = RemoveAt(files, i)
  /\ UNCHANGED <<fuPc, fuPending, fuAlert>>

NextFileUpload ==
  \/ \E f \in UserFiles : handleFileChange(f) /\ UNCHANGED exceptUpload
  \/ \E ok \in BOOLEAN : ExtractSettles(ok) /\ UNCHANGED exceptUpload
  \/ \E f \in UserFiles : handleFileDrop(f) /\ UNCHANGED exceptUpload
  \/ \E i \in 1..2 : removeFile(i) /\ UNCHANGED exceptUpload

(***************************************************************************)
(* convert_pptx_to_pdf (powerpoint_pdf_conversion_roadmap.md)              *)
(***************************************************************************)
\* asyncio.wait_for(process.communicate(), timeout=60)
ConversionTimeoutS == 60
\* the step of the clock that measures the wait
WaitStepS == ConversionTimeoutS \div 2

\* f"{output_dir}/presentation.pdf"
pdf_path == "presentation.pdf"
\* names a file of the output directory may have
DirNames == {pdf_path, "deck.pdf", "handout.pdf", "deck.txt"}
\* Path(output_dir).glob("*.pdf")
pdf_files(dir) == dir \ {"deck.txt"}

NoProcess == [state |-> "none", returncode |-> Null]
NoResult  == <<FALSE, Null>>
TimedOut  == <<FALSE, "Conversion timed out">>

InitConvert ==
  /\ cvPc = "idle" /\ process = NoProcess /\ elapsed = 0
  /\ output_dir \in {{}, {"deck.txt"}}
  /\ cvResult = NoResult /\ cvRaised = FALSE /\ lookedForFile = FALSE

\* the call, up to its first await
convert_pptx_to_pdf ==
  /\ cvPc \in {"idle", "returned"}
  /\ cvPc' = "spawn"
  /\ process' = NoProcess /\ elapsed' = 0
  /\ cvResult' = NoResult /\ lookedForFile' = FALSE
  /\ UNCHANGED <<output_dir, cvRaised>>

\* f"Error converting to PDF: {str(e)}"
ErrorConverting(e) ==
  IF e = "FileNotFoundError" THEN "Error converting to PDF: No such file"
  ELSE "Error converting to PDF: can't decode"

\* except Exception as e: return False, f"Error converting to PDF: {str(e)}"
OuterExcept(e) ==
  /\ cvResult' = <<FALSE, ErrorConverting(e)>>
  /\ cvPc' = "returned"
  /\ UNCHANGED cvRaised

\* asyncio.create_subprocess_exec settles: the converter runs, or the
\* executable cannot be started
SpawnSettles(started) ==
  /\ cvPc = "spawn"
  /\ IF started THEN
       /\ process' = [state |-> "running", returncode |-> Null]
       /\ cvPc' = "wait"
       /\ UNCHANGED <<cvResult, cvRaised>>
     ELSE
       /\ OuterExcept("FileNotFoundError")
       /\ UNCHANGED process
  /\ UNCHANGED <<elapsed, output_dir, lookedForFile>>

\* the running converter writes a file into the output directory
ConverterWrites(n) ==
  /\ process.state = "running" /\ n \notin output_dir
  /\ output_dir' = output_dir \cup {n}
  /\ UNCHANGED <<cvPc, process, elapsed, cvResult, cvRaised, lookedForFile>>

\* time passes during the wait
WaitTick ==
  /\ cvPc = "wait" /\ elapsed < ConversionTimeoutS
  /\ elapsed' = elapsed + WaitStepS
  /\ UNCHANGED <<cvPc, process, output_dir, cvResult, cvRaised, lookedForFile>>

\* faulty variant: the exit code is not looked at
ExitedIgnoringCode(rc, decodes, found) ==
  /\ lookedForFile' = TRUE
  /\ cvPc' = "returned"
  /\ cvResult' = (IF pdf_path \in output_dir THEN <<TRUE, pdf_path>>
                  ELSE IF pdf_files(output_dir) # {} THEN <<TRUE, found>>
                  ELSE <<FALSE, "PDF file not created">>)
  /\ UNCHANGED cvRaised

\* the statements after wait_for has returned: rc is process.returncode,
\* decodes tells whether stderr.decode() succeeds, found is pdf_files[0]
Exited(rc, decodes, found) ==
  IF rc # 0 THEN
    /\ lookedForFile' = FALSE
    /\ IF decodes
       THEN /\ cvResult' = <<FALSE, "Conversion failed: <stderr>">>
            /\ cvPc' = "returned"
            /\ UNCHANGED cvRaised
       ELSE OuterExcept("UnicodeDecodeError")
  ELSE
    /\ lookedForFile' = TRUE
    /\ cvPc' = "returned"
    /\ cvResult' = (IF pdf_path \in output_dir THEN <<TRUE, pdf_path>>
                    ELSE IF pdf_files(output_dir) # {} THEN <<TRUE, found>>
                    ELSE <<FALSE, "PDF file not created">>)
    /\ UNCHANGED cvRaised

\* process.communicate() finishes before the timeout is handled
CommunicateReturns(rc, decodes) ==
  /\ cvPc = "wait"
  /\ process' = [state |-> "exited", returncode |-> rc]
  /\ \E found \in (IF pdf_files(output_dir) = {} THEN {Null}
                   ELSE pdf_files(output_dir)) :
       Exited(rc, decodes, found)
  /\ UNCHANGED <<elapsed, output_dir>>

\* faulty variant: the timeout handler returns without process.kill()
OnTimeoutNoKill ==
  /\ cvResult' = TimedOut
  /\ cvPc' = "returned"
  /\ UNCHANGED <<process, cvRaised>>

\* except asyncio.TimeoutError: process.kill(); return ...
OnTimeout ==
  /\ process' = [state |-> "killed", returncode |-> Null]
  /\ cvResult' = TimedOut
  /\ cvPc' = "returned"
  /\ UNCHANGED cvRaised

\* wait_for gives up after 60 seconds
TimeoutFires ==
  /\ cvPc = "wait" /\ elapsed = ConversionTimeoutS
  /\ OnTimeout
  /\ UNCHANGED <<elapsed, output_dir, lookedForFile>>

NextConvert ==
  \/ convert_pptx_to_pdf /\ UNCHANGED exceptConvert
  \/ \E st \in BOOLEAN : SpawnSettles(st) /\ UNCHANGED exceptConvert
  \/ \E n \in DirNames : ConverterWrites(n) /\ UNCHANGED exceptConvert
  \/ WaitTick /\ UNCHANGED exceptConvert
  \/ \E rc \in {0, 1, -9}, d \in BOOLEAN :
       CommunicateReturns(rc, d) /\ UNCHANGED exceptConvert
  \/ TimeoutFires /\ UNCHANGED exceptConvert

\* handleTransform called as a function, whatever the controls allow
CallHandleTransform ==
  /\ tpPc \in {"idle", "done"}
  /\ handleTransform

\* any state the handler may be called in
InitHandleTransform ==
  /\ inputText \in TpTexts /\ outputText \in {"", "T"}
  /\ transformType = "simplify" /\ transformLevel = "3"
  /\ isLoading = FALSE /\ isTestingConnection = FALSE
  /\ tpError \in {NoMessage, <<"API connection successful">>}
  /\ requests \in {<<>>, <<0>>} /\ maxRequestsPerMinute \in 1..MaxConfiguredLimit
  /\ now = 0 /\ sent = requests
  /\ tpPc = "idle" /\ closure = NoClosure /\ tpRequest = NoRequest
  /\ tpOutcome = "none"
  /\ testPc = "idle"

NextHandleTransform ==
  \/ CallHandleTransform /\ UNCHANGED exceptTransform
  \/ AdvanceClock /\ UNCHANGED exceptTransform
  \/ \E t \in TokenResults : TokenSettles(t) /\ UNCHANGED exceptTransform
  \/ \E r \in ApiResponses : ApiSettles(r) /\ UNCHANGED exceptTransform

NextTransformPage ==
  \/ \E t \in TpTexts : TypeText(t) /\ UNCHANGED exceptTransform
  \/ \E ty \in TransformationTypes : SelectType(ty) /\ UNCHANGED exceptTransform
  \/ \E lv \in LevelValues : SelectLevel(lv) /\ UNCHANGED exceptTransform
  \/ ClearMessage /\ UNCHANGED exceptTransform
  \/ AdvanceClock /\ UNCHANGED exceptTransform
  \/ ClickTransform /\ UNCHANGED exceptTransform
  \/ PressCtrlEnter /\ UNCHANGED exceptTransform
  \/ \E t \in TokenResults : TokenSettles(t) /\ UNCHANGED exceptTransform
  \/ \E r \in ApiResponses : ApiSettles(r) /\ UNCHANGED exceptTransform
  \/ ClickTestConnection /\ UNCHANGED exceptTransform
  \/ \E h \in {"ok", "notok", "reject"} : HealthSettles(h) /\ UNCHANGED exceptTransform

NextViewer ==
  \/ \E f \in Files : SelectFile(f) /\ UNCHANGED exceptViewer
  \/ \E r \in UploadResponses : UploadResponds(r) /\ UNCHANGED exceptViewer
  \/ PollTimerFires /\ UNCHANGED exceptViewer
  \/ \E s \in StatusResponses : StatusResponds(s) /\ UNCHANGED exceptViewer
  \/ FallbackTimerFires /\ UNCHANGED exceptViewer
  \/ BackoffTimerFires /\ UNCHANGED exceptViewer
  \/ ProgressTick /\ UNCHANGED exceptViewer
  \/ IframeLoad /\ UNCHANGED exceptViewer
  \/ IframeLoadError /\ UNCHANGED exceptViewer
  \/ retryLoad /\ UNCHANGED exceptViewer
  \/ UploadAnother /\ UNCHANGED exceptViewer

(***************************************************************************)
(* OcrService (services/ocr.ts) and its callers in FileViewer              *)
(***************************************************************************)
\* the bound on createWorker calls that resolve
MaxWorkers == 2
\* the bound on calls of initialize and terminate that are awaiting
MaxOcrCalls == 2

NoWorker    == 0
NoScheduler == <<>>
WorkerIds   == 1..MaxWorkers

\* one call of initialize or terminate that is awaiting: target is the set
\* of workers behind the object whose terminate() the call awaits
OcrCall(op, at, target) == [op |-> op, at |-> at, target |-> target]

InitOcr ==
  /\ scheduler = NoScheduler /\ worker = NoWorker /\ isInitialized = FALSE
  /\ alive = {} /\ created = 0 /\ ocrCalls = <<>> /\ viewerMounted = FALSE

\* initialize() up to its first await
initialize ==
  /\ IF isInitialized THEN UNCHANGED ocrCalls
     ELSE /\ Len(ocrCalls) < MaxOcrCalls /\ created < MaxWorkers
          /\ ocrCalls' = Append(ocrCalls, OcrCall("initialize", "createWorker", {}))
  /\ UNCHANGED <<scheduler, worker, isInitialized, alive, created>>

\* terminate() up to its first await
terminate ==
  /\ IF scheduler # NoScheduler THEN
       /\ Len(ocrCalls) < MaxOcrCalls
       /\ ocrCalls' = Append(ocrCalls, OcrCall("terminate", "scheduler.terminate",
                                               scheduler[1]))
       /\ UNCHANGED isInitialized
     ELSE IF worker # NoWorker THEN
       /\ Len(ocrCalls) < MaxOcrCalls
       /\ ocrCalls' = Append(ocrCalls, OcrCall("terminate", "worker.terminate",
                                               {worker}))
       /\ UNCHANGED isInitialized
     ELSE
       /\ UNCHANGED ocrCalls
       /\ isInitialized' = FALSE
  /\ UNCHANGED <<scheduler, worker, alive, created>>

\* the catch block of initialize: isInitialized = false, await terminate()
InitializeCatch(i) ==
  /\ IF scheduler' # NoScheduler THEN
       /\ ocrCalls' = Append(RemoveAt(ocrCalls, i),
                             OcrCall("terminate", "scheduler.terminate",
                                     scheduler'[1]))
     ELSE IF worker' # NoWorker THEN
       /\ ocrCalls' = Append(RemoveAt(ocrCalls, i),
                             OcrCall("terminate", "worker.terminate",
                                     {worker'}))
     ELSE ocrCalls' = RemoveAt(ocrCalls, i)
  /\ isInitialized' = FALSE

\* createWorker('eng') settles
CreateWorkerSettles(i, ok) ==
  /\ i \in 1..Len(ocrCalls) /\ ocrCalls[i].at = "createWorker"
  /\ IF ok THEN
       /\ created < MaxWorkers
       /\ created' = created + 1
       /\ alive' = alive \cup {created + 1}
       /\ worker' = created + 1
       /\ ocrCalls' = [ocrCalls EXCEPT ![i].at = "setParameters"]
       /\ UNCHANGED <<scheduler, isInitialized>>
     ELSE
       /\ UNCHANGED <<scheduler, worker, alive, created>>
       /\ InitializeCatch(i)

\* this.worker.setParameters(...) settles; on success the scheduler is
\* created and addWorker(this.worker) is called, which throws on null
SetParametersSettles(i, ok) ==
  /\ i \in 1..Len(ocrCalls) /\ ocrCalls[i].at = "setParameters"
  /\ UNCHANGED <<worker, alive, created>>
  /\ IF ok THEN
       IF worker # NoWorker THEN
         /\ scheduler' = <<{worker}>>
         /\ ocrCalls' = [ocrCalls EXCEPT ![i].at = "addWorker"]
         /\ UNCHANGED isInitialized
       ELSE
         /\ scheduler' = <<{}>>
         /\ InitializeCatch(i)
     ELSE
       /\ UNCHANGED scheduler
       /\ InitializeCatch(i)

\* this.scheduler.addWorker(this.worker) settles
AddWorkerSettles(i) ==
  /\ i \in 1..Len(ocrCalls) /\ ocrCalls[i].at = "addWorker"
  /\ isInitialized' = TRUE
  /\ ocrCalls' = RemoveAt(ocrCalls, i)
  /\ UNCHANGED <<scheduler, worker, alive, created>>

\* this.scheduler.terminate() settles: it ends the workers of the scheduler
SchedulerTerminateSettles(i, ok) ==
  /\ i \in 1..Len(ocrCalls) /\ ocrCalls[i].at = "scheduler.terminate"
  /\ UNCHANGED <<worker, created>>
  /\ IF ok THEN
       /\ alive' = alive \ ocrCalls[i].target
       /\ scheduler' = NoScheduler
       /\ IF worker # NoWorker THEN
            /\ ocrCalls' = [ocrCalls EXCEPT ![i].at = "worker.terminate",
                                            ![i].target = {worker}]
            /\ UNCHANGED isInitialized
          ELSE
            /\ ocrCalls' = RemoveAt(ocrCalls, i)
            /\ isInitialized' = FALSE
     ELSE
       /\ ocrCalls' = RemoveAt(ocrCalls, i)
       /\ UNCHANGED <<scheduler, alive, isInitialized>>

\* this.worker.terminate() settles
WorkerTerminateSettles(i, ok) ==
  /\ i \in 1..Len(ocrCalls) /\ ocrCalls[i].at = "worker.terminate"
  /\ ocrCalls' = RemoveAt(ocrCalls, i)
  /\ UNCHANGED <<scheduler, created>>
  /\ IF ok THEN
       /\ alive' = alive \ ocrCalls[i].target
       /\ worker' = NoWorker
       /\ isInitialized' = FALSE
     ELSE UNCHANGED <<worker, alive, isInitialized>>

\* FileViewer mounts: its effect calls ocrService.initialize
MountViewer ==
  /\ ~viewerMounted
  /\ viewerMounted' = TRUE
  /\ initialize

\* FileViewer unmounts: the cleanup of the effect calls ocrService.terminate
UnmountViewer ==
  /\ viewerMounted
  /\ viewerMounted' = FALSE
  /\ terminate

\* handleDocxFile reaches an image of the document
DocxImage ==
  /\ viewerMounted
  /\ ~isInitialized
  /\ initialize
  /\ UNCHANGED viewerMounted

NextOcr ==
  \/ MountViewer /\ UNCHANGED exceptOcr
  \/ UnmountViewer /\ UNCHANGED exceptOcr
  \/ DocxImage /\ UNCHANGED exceptOcr
  \/ \E i \in 1..MaxOcrCalls, ok \in BOOLEAN :
       CreateWorkerSettles(i, ok) /\ UNCHANGED <<viewerMounted, exceptOcr>>
  \/ \E i \in 1..MaxOcrCalls, ok \in BOOLEAN :
       SetParametersSettles(i, ok) /\ UNCHANGED <<viewerMounted, exceptOcr>>
  \/ \E i \in 1..MaxOcrCalls :
       AddWorkerSettles(i) /\ UNCHANGED <<viewerMounted, exceptOcr>>
  \/ \E i \in 1..MaxOcrCalls, ok \in BOOLEAN :
       SchedulerTerminateSettles(i, ok) /\ UNCHANGED <<viewerMounted, exceptOcr>>
  \/ \E i \in 1..MaxOcrCalls, ok \in BOOLEAN :
       WorkerTerminateSettles(i, ok) /\ UNCHANGED <<viewerMounted, exceptOcr>>

(***************************************************************************)
(* FileProvider (contexts/FileContext.tsx) and the object-URL cleanup      *)
(* effect of FileViewer                                                    *)
(***************************************************************************)
\* the bound on uploadFile calls
MaxUploads == 2
\* the simulated upload adds 10 to the progress every 500 ms, up to 100
ProgressStep == 10
ProgressDone == 100

InitFileContext ==
  /\ fcFiles = <<>> /\ revoked = {} /\ uploaded = 0 /\ reading = {}
  /\ previewMounted = FALSE

\* files[files.length - 1] as a set: empty when there is no file
currentFile(fs) == IF fs = <<>> THEN {} ELSE {fs[Len(fs)]}

\* the cleanup of the effect with dependency [currentFile] runs when the
\* viewer is mounted and the object currentFile is replaced: it revokes the
\* url of the object it closed over
EffectCleanup(old, replaced) ==
  IF previewMounted /\ replaced THEN {f.url : f \in currentFile(old)} ELSE {}

\* prev.map(file => file.id === id ? {...file, <field>} : file): the
\* matching file becomes a new object
MapFile(id, update(_)) ==
  /\ fcFiles' = [i \in 1..Len(fcFiles) |->
                   IF fcFiles[i].id = id THEN update(fcFiles[i]) ELSE fcFiles[i]]
  /\ revoked' = revoked \cup
       EffectCleanup(fcFiles, \E f \in currentFile(fcFiles) : f.id = id)

\* uploadFile(file): createObjectURL, addFile, then the reader and the
\* progress interval are started
contextUploadFile(isText) ==
  /\ uploaded < MaxUploads
  /\ uploaded' = uploaded + 1
  /\ fcFiles' = Append(fcFiles, [id |-> uploaded + 1, progress |-> 0,
                                 textContent |-> FALSE, url |-> uploaded + 1])
  /\ revoked' = revoked \cup EffectCleanup(fcFiles, fcFiles # <<>>)
  /\ reading' = (IF isText THEN reading \cup {uploaded + 1} ELSE reading)
  /\ UNCHANGED previewMounted

\* one tick of the progress interval of file id
updateFileProgress(id) ==
  /\ \E i \in 1..Len(fcFiles) :
       fcFiles[i].id = id /\ fcFiles[i].progress < ProgressDone
  /\ LET withProgress(f) == [f EXCEPT !.progress = f.progress + ProgressStep]
     IN MapFile(id, withProgress)
  /\ UNCHANGED <<uploaded, reading, previewMounted>>

\* reader.onload of a text file
setFileTextContent(id) ==
  /\ id \in reading
  /\ reading' = reading \ {id}
  /\ LET withText(f) == [f EXCEPT !.textContent = TRUE]
     IN MapFile(id, withText)
  /\ UNCHANGED <<uploaded, previewMounted>>

\* removeFile(id): the url of the file is revoked, the file is filtered out
removeFileById(id) ==
  /\ \E i \in 1..Len(fcFiles) : fcFiles[i].id = id
  /\ fcFiles' = SelectSeq(fcFiles, LAMBDA f : f.id # id)
  /\ revoked' = revoked
       \cup {fcFiles[i].url : i \in {j \in 1..Len(fcFiles) : fcFiles[j].id = id}}
       \cup EffectCleanup(fcFiles, \E f \in currentFile(fcFiles) : f.id = id)
  /\ UNCHANGED <<uploaded, reading, previewMounted>>

MountPreview ==
  /\ ~previewMounted
  /\ previewMounted' = TRUE
  /\ UNCHANGED <<fcFiles, revoked, uploaded, reading>>

UnmountPreview ==
  /\ previewMounted
  /\ previewMounted' = FALSE
  /\ revoked' = revoked \cup EffectCleanup(fcFiles, TRUE)
  /\ UNCHANGED <<fcFiles, uploaded, reading>>

NextFileContext ==
  \/ \E t \in BOOLEAN : contextUploadFile(t) /\ UNCHANGED exceptFileContext
  \/ \E id \in 1..MaxUploads : updateFileProgress(id) /\ UNCHANGED exceptFileContext
  \/ \E id \in 1..MaxUploads : setFileTextContent(id) /\ UNCHANGED exceptFileContext
  \/ \E id \in 1..MaxUploads : removeFileById(id) /\ UNCHANGED exceptFileContext
  \/ MountPreview /\ UNCHANGED exceptFileContext
  \/ UnmountPreview /\ UNCHANGED exceptFileContext

(***************************************************************************)
(* ProtectedRoute on its own: the one of App.tsx (lines 11-43) and the one *)
(* of components/ProtectedRoute.tsx (lines 8-41)                           *)
(***************************************************************************)
\* the bound on the loginWithRedirect calls counted
MaxLoginCalls == 3

InitRoute ==
  /\ prVariant \in {"App", "components"}
  /\ strictMode \in BOOLEAN
  /\ prMounted = FALSE /\ prIsLoading = TRUE /\ prIsAuthenticated = FALSE
  /\ prRedirectingToLogin = FALSE /\ prEffectDue = "no" /\ prCalls = 0

\* the route is rendered: fresh state, the effect runs after the commit
MountRoute ==
  /\ ~prMounted
  /\ prMounted' = TRUE
  /\ prRedirectingToLogin' = FALSE
  /\ prEffectDue' = "mount"
  /\ prCalls' = 0
  /\ UNCHANGED <<prVariant, strictMode, prIsLoading, prIsAuthenticated>>

UnmountRoute ==
  /\ prMounted
  /\ prMounted' = FALSE
  /\ prEffectDue' = "no"
  /\ UNCHANGED <<prVariant, strictMode, prIsLoading, prIsAuthenticated,
                 prRedirectingToLogin, prCalls>>

\* useAuth0() reports another isLoading / isAuthenticated: a dependency of
\* the effect has changed
AuthStateChanges(l, a) ==
  /\ <<l, a>> # <<prIsLoading, prIsAuthenticated>>
  /\ prIsLoading' = l /\ prIsAuthenticated' = a
  /\ prEffectDue' = (IF ~prMounted THEN "no"
                     ELSE IF prEffectDue = "mount" THEN "mount" ELSE "update")
  /\ prCalls' = 0
  /\ UNCHANGED <<prVariant, strictMode, prMounted, prRedirectingToLogin>>

\* useAuth0() hands the component another loginWithRedirect function: a
\* dependency of the effect has changed
LoginFunctionChanges ==
  /\ prMounted /\ prEffectDue = "no"
  /\ prEffectDue' = "update"
  /\ UNCHANGED <<prVariant, strictMode, prMounted, prIsLoading,
                 prIsAuthenticated, prRedirectingToLogin, prCalls>>

\* the number of times the effect function of the committed render runs
EffectRuns == IF strictMode /\ prEffectDue = "mount" THEN 2 ELSE 1

\* the effect of the committed render calls loginWithRedirect
EffectRedirects ==
  IF prVariant = "App"
  THEN ~prIsAuthenticated /\ ~prIsLoading /\ ~prRedirectingToLogin
  ELSE ~prIsLoading /\ ~prIsAuthenticated

\* the effect of the committed render runs
RouteEffect ==
  /\ prMounted /\ prEffectDue # "no"
  /\ IF EffectRedirects THEN
       /\ prCalls + EffectRuns <= MaxLoginCalls
       /\ prCalls' = prCalls + EffectRuns
       /\ IF prVariant = "App"
          THEN \* setRedirectingToLogin(true): a dependency has changed
               prRedirectingToLogin' = TRUE /\ prEffectDue' = "update"
          ELSE UNCHANGED prRedirectingToLogin /\ prEffectDue' = "no"
     ELSE
       /\ prEffectDue' = "no"
       /\ UNCHANGED <<prCalls, prRedirectingToLogin>>
  /\ UNCHANGED <<prVariant, strictMode, prMounted, prIsLoading,
                 prIsAuthenticated>>

NextRoute ==
  \/ MountRoute /\ UNCHANGED exceptRoute
  \/ UnmountRoute /\ UNCHANGED exceptRoute
  \/ \E l, a \in BOOLEAN : AuthStateChanges(l, a) /\ UNCHANGED exceptRoute
  \/ LoginFunctionChanges /\ UNCHANGED exceptRoute
  \/ RouteEffect /\ UNCHANGED exceptRoute

(***************************************************************************)
(* The retry-capped viewers: the viewer kept in components/                *)
(* ProtectedRoute.tsx (from line 45) and clarity.lecturebolt/src/App.tsx   *)
(***************************************************************************)
\* the bound on the presentations uploaded
MaxPresentations == 2
\* the cap of handleIframeError, retryLoad and the Retry button
PreviewRetryCap == 3

InitRetryViewer ==
  /\ rvVariant \in {"components", "lecturebolt"}
  /\ rvPresentation = [id |-> 0, pdf |-> FALSE]
  /\ rvUploading = FALSE /\ rvIframeLoading = FALSE
  /\ rvIframeError = Null /\ rvRetryCount = 0
  /\ rvFrame = "idle" /\ rvLoadTimer = FALSE
  /\ rvReloads = 0 /\ rvUploads = 0

\* the state variable presentation is not null
RvShown == rvPresentation.id # 0

\* lecturebolt shows a PDF in an <object>, everything else in an <iframe>;
\* document.querySelector('iframe') finds the latter only
HasIframe == ~(rvVariant = "lecturebolt" /\ rvPresentation.pdf)

\* handleFileUpload up to the POST (a supported file was chosen)
RvSelectFile ==
  /\ ~RvShown /\ ~rvUploading /\ rvUploads < MaxPresentations
  /\ rvUploading' = TRUE
  /\ rvIframeError' = Null
  /\ rvRetryCount' = 0
  /\ UNCHANGED <<rvVariant, rvPresentation, rvIframeLoading, rvFrame,
                 rvLoadTimer, rvReloads, rvUploads>>

\* the upload settles: setPresentation and setIframeLoading(true), or the
\* catch block; then the finally block
RvUploadSettles(ok, pdf) ==
  /\ rvUploading
  /\ rvUploading' = FALSE
  /\ IF ok THEN
       /\ rvPresentation' = [id |-> rvUploads + 1, pdf |-> pdf]
       /\ rvUploads' = rvUploads + 1
       /\ rvIframeLoading' = TRUE
       /\ rvFrame' = "loading"
       /\ rvReloads' = 0
     ELSE UNCHANGED <<rvPresentation, rvUploads, rvIframeLoading, rvFrame,
                      rvReloads>>
  /\ UNCHANGED <<rvVariant, rvIframeError, rvRetryCount, rvLoadTimer>>

\* the body of retryLoad past its guard: the iframe, when there is one, is
\* given a new src
Reload ==
  /\ rvIframeLoading' = TRUE
  /\ rvIframeError' = Null
  /\ rvRetryCount' = rvRetryCount + 1
  /\ IF HasIframe
     THEN rvFrame' = "loading" /\ rvReloads' = rvReloads + 1
     ELSE UNCHANGED <<rvFrame, rvReloads>>

\* retryLoad
cappedRetryLoad ==
  IF ~RvShown \/ rvRetryCount >= PreviewRetryCap THEN
    IF rvVariant = "components"
    THEN /\ rvIframeError' = "Failed to load file preview after multiple attempts"
         /\ rvIframeLoading' = FALSE
         /\ UNCHANGED <<rvRetryCount, rvFrame, rvReloads>>
    ELSE UNCHANGED <<rvIframeLoading, rvIframeError, rvRetryCount, rvFrame,
                     rvReloads>>
  ELSE Reload

\* the Retry button: rendered with the error message, disabled at the cap
RvClickRetry ==
  /\ RvShown /\ rvIframeError # Null
  /\ ~(rvRetryCount >= PreviewRetryCap)
  /\ cappedRetryLoad
  /\ UNCHANGED <<rvVariant, rvPresentation, rvUploading, rvLoadTimer, rvUploads>>

\* handleIframeLoad: the element has loaded
RvIframeLoad ==
  /\ RvShown /\ rvFrame = "loading"
  /\ rvFrame' = "idle"
  /\ rvReloads' = 0
  /\ IF rvVariant = "components"
     THEN \* setTimeout(..., 500)
          /\ rvLoadTimer' = TRUE
          /\ UNCHANGED <<rvIframeLoading, rvIframeError, rvRetryCount>>
     ELSE /\ rvIframeLoading' = FALSE
          /\ rvIframeError' = Null
          /\ rvRetryCount' = 0
          /\ UNCHANGED rvLoadTimer
  /\ UNCHANGED <<rvVariant, rvPresentation, rvUploading, rvUploads>>

\* the timer of handleIframeLoad fires
RvLoadTimerFires ==
  /\ rvLoadTimer
  /\ rvLoadTimer' = FALSE
  /\ rvIframeLoading' = FALSE
  /\ rvIframeError' = Null
  /\ rvRetryCount' = 0
  /\ UNCHANGED <<rvVariant, rvPresentation, rvUploading, rvFrame, rvReloads,
                 rvUploads>>

\* handleIframeError: the element failed to load
RvIframeError ==
  /\ RvShown /\ rvFrame = "loading"
  /\ IF rvVariant = "components" THEN
       IF rvRetryCount < PreviewRetryCap
       THEN cappedRetryLoad
       ELSE /\ rvIframeError' = "Failed to load file preview"
            /\ rvIframeLoading' = FALSE
            /\ rvFrame' = "idle"
            /\ UNCHANGED <<rvRetryCount, rvReloads>>
     ELSE
       /\ rvIframeError' = "Failed to load presentation preview"
       /\ rvIframeLoading' = FALSE
       /\ rvFrame' = "idle"
       /\ UNCHANGED <<rvRetryCount, rvReloads>>
  /\ UNCHANGED <<rvVariant, rvPresentation, rvUploading, rvLoadTimer, rvUploads>>

\* the 'Upload Another' button
RvUploadAnother ==
  /\ RvShown
  /\ rvPresentation' = [id |-> 0, pdf |-> FALSE]
  /\ rvIframeError' = Null
  /\ rvRetryCount' = 0
  /\ rvIframeLoading' = (IF rvVariant = "components" THEN FALSE
                         ELSE rvIframeLoading)
  /\ rvFrame' = "idle"
  /\ rvReloads' = 0
  /\ UNCHANGED <<rvVariant, rvUploading, rvLoadTimer, rvUploads>>

NextRetryViewer ==
  \/ RvSelectFile /\ UNCHANGED exceptRetryViewer
  \/ \E ok, pdf \in BOOLEAN : RvUploadSettles(ok, pdf) /\ UNCHANGED exceptRetryViewer
  \/ RvClickRetry /\ UNCHANGED exceptRetryViewer
  \/ RvIframeLoad /\ UNCHANGED exceptRetryViewer
  \/ RvLoadTimerFires /\ UNCHANGED exceptRetryViewer
  \/ RvIframeError /\ UNCHANGED exceptRetryViewer
  \/ RvUploadAnother /\ UNCHANGED exceptRetryViewer

\* the pages that a specification leaves alone stay in one initial state
IdleTransform == InitTransform /\ maxRequestsPerMinute = 1
IdleLecture   == InitLecture /\ variant = "components"
IdleConvert   == InitConvert /\ output_dir = {}
IdleRetryViewer == InitRetryViewer /\ rvVariant = "components"
IdleRoute     == InitRoute /\ prVariant = "App" /\ ~strictMode
IdleApp       == InitApp /\ appVariant = "App" /\ pathname = "/" /\ ~session

ViewerStart ==
  InitViewer /\ IdleTransform /\ IdleLecture /\ loginRedirects = 0 /\ IdleApp
  /\ InitFileUpload /\ IdleConvert /\ InitOcr /\ InitFileContext /\ IdleRoute
  /\ IdleRetryViewer
TransformStart ==
  InitViewer /\ InitTransform /\ IdleLecture /\ loginRedirects = 0 /\ IdleApp
  /\ InitFileUpload /\ IdleConvert /\ InitOcr /\ InitFileContext /\ IdleRoute
  /\ IdleRetryViewer
HandleTransformStart ==
  InitViewer /\ InitHandleTransform /\ IdleLecture /\ loginRedirects = 0 /\ IdleApp
  /\ InitFileUpload /\ IdleConvert /\ InitOcr /\ InitFileContext /\ IdleRoute
  /\ IdleRetryViewer
LectureStart ==
  InitViewer /\ IdleTransform /\ InitLecture /\ loginRedirects = 0 /\ IdleApp
  /\ InitFileUpload /\ IdleConvert /\ InitOcr /\ InitFileContext /\ IdleRoute
  /\ IdleRetryViewer

AppStart ==
  InitViewer /\ IdleTransform /\ IdleLecture /\ loginRedirects = 0 /\ InitApp
  /\ InitFileUpload /\ IdleConvert /\ InitOcr /\ InitFileContext /\ IdleRoute
  /\ IdleRetryViewer

ConvertStart ==
  InitViewer /\ IdleTransform /\ IdleLecture /\ loginRedirects = 0 /\ IdleApp
  /\ InitFileUpload /\ InitConvert /\ InitOcr /\ InitFileContext /\ IdleRoute
  /\ IdleRetryViewer

FileUploadStart ==
  InitViewer /\ IdleTransform /\ IdleLecture /\ loginRedirects = 0 /\ IdleApp
  /\ InitFileUpload /\ IdleConvert /\ InitOcr /\ InitFileContext /\ IdleRoute
  /\ IdleRetryViewer

OcrStart ==
  InitViewer /\ IdleTransform /\ IdleLecture /\ loginRedirects = 0 /\ IdleApp
  /\ InitFileUpload /\ IdleConvert /\ InitOcr /\ InitFileContext /\ IdleRoute
  /\ IdleRetryViewer

FileContextStart ==
  InitViewer /\ IdleTransform /\ IdleLecture /\ loginRedirects = 0 /\ IdleApp
  /\ InitFileUpload /\ IdleConvert /\ InitOcr /\ InitFileContext /\ IdleRoute
  /\ IdleRetryViewer

RouteStart ==
  InitViewer /\ IdleTransform /\ IdleLecture /\ loginRedirects = 0 /\ IdleApp
  /\ InitFileUpload /\ IdleConvert /\ InitOcr /\ InitFileContext /\ InitRoute
  /\ IdleRetryViewer

RetryViewerStart ==
  InitViewer /\ IdleTransform /\ IdleLecture /\ loginRedirects = 0 /\ IdleApp
  /\ InitFileUpload /\ IdleConvert /\ InitOcr /\ InitFileContext /\ IdleRoute
  /\ InitRetryViewer

SpecViewer == ViewerStart /\ [][NextViewer]_vars

SpecTransform == TransformStart /\ [][NextTransformPage]_vars

SpecHandleTransform == HandleTransformStart /\ [][NextHandleTransform]_vars

\* the awaited token and API calls settle
FairHandleTransform ==
  /\ WF_vars(\E t \in TokenResults : TokenSettles(t) /\ UNCHANGED exceptTransform)
  /\ WF_vars(\E r \in ApiResponses : ApiSettles(r) /\ UNCHANGED exceptTransform)

FairSpecHandleTransform ==
  HandleTransformStart /\ [][NextHandleTransform]_vars /\ FairHandleTransform

SpecLecture == LectureStart /\ [][NextLecture]_vars

SpecApp == AppStart /\ [][NextApp]_vars

\* React runs the effects of a commit, Auth0 finishes its check and a
\* rendered <Navigate> navigates; what the user does is not forced
FairApp ==
  /\ WF_vars(AuthSettles /\ UNCHANGED exceptApp)
  /\ WF_vars(NavigateElement /\ UNCHANGED exceptApp)
  /\ WF_vars(GuardEffect /\ UNCHANGED exceptApp)
  /\ WF_vars(SimplifiedGuardEffect /\ UNCHANGED exceptApp)
  /\ WF_vars(CallbackEffect(FALSE) /\ UNCHANGED exceptApp)

FairSpecApp == AppStart /\ [][NextApp]_vars /\ FairApp

SpecFileUpload == FileUploadStart /\ [][NextFileUpload]_vars

SpecConvert == ConvertStart /\ [][NextConvert]_vars

SpecOcr == OcrStart /\ [][NextOcr]_vars

SpecFileContext == FileContextStart /\ [][NextFileContext]_vars

SpecRoute == RouteStart /\ [][NextRoute]_vars

SpecRetryViewer == RetryViewerStart /\ [][NextRetryViewer]_vars

\* every request and every timer eventually settles, and a rendered iframe
\* eventually fires its load or error event; the user is not obliged to act
FairViewer ==
  /\ WF_vars((\E r \in UploadResponses : UploadResponds(r))
             /\ UNCHANGED exceptViewer)
  /\ WF_vars(PollTimerFires /\ UNCHANGED exceptViewer)
  /\ WF_vars((\E s \in StatusResponses : StatusResponds(s))
             /\ UNCHANGED exceptViewer)
  /\ WF_vars(FallbackTimerFires /\ UNCHANGED exceptViewer)
  /\ WF_vars(BackoffTimerFires /\ UNCHANGED exceptViewer)
  /\ WF_vars((IframeLoad \/ IframeLoadError)
             /\ UNCHANGED exceptViewer)

FairSpecViewer == ViewerStart /\ [][NextViewer]_vars /\ FairViewer

(***************************************************************************)
(* Properties of handleFileUpload                                          *)
(***************************************************************************)
StatusFailureKinds == {"reject", "notok", "badjson"}
Running == pvPc \notin {"idle", "done"}

\* C1: for one file whose upload is answered {status:"processing",
\* check_status_url}, the status endpoint is polled at most 10 times, each
\* poll after a 2000 ms wait, and after a processing timeout the client gives
\* up with 'Document processing timed out' (no further upload or poll).
C1_PollsAtMostTenThenGiveUp ==
  /\ polls <= 10
  /\ (pvPc = "pollFetch" => lastWait = 2000)
  /\ (lastError = "Document processing timed out" /\ pvPc # "idle"
        => pvPc = "done" /\ error = "Document processing timed out")

\* C2: at most 3 upload requests per selected file; after failed attempt
\* k = 1, 2 the handler waits 1000*k ms and then sends request k+1; after the
\* third failed attempt it neither waits nor sends.
C2_UploadRetryCap ==
  /\ uploads <= 3
  /\ (pvPc = "backoff" =>
        retryCount \in {1, 2} /\ timer = 1000 * retryCount
        /\ uploads = retryCount)
  /\ (pvPc = "upload" =>
        uploads = retryCount + 1
        /\ (retryCount > 0 => lastWait = 1000 * retryCount))
  /\ (Running => retryCount < 3)
  /\ (Running /\ pvPc # "backoff" => uploads = retryCount + 1)
  /\ (retryCount >= 3 =>
        retryCount = 3 /\ uploads = 3 /\ pvPc \in {"done", "idle"} /\ timer = 0)

C2_Witness ==
  pvPc = "done" /\ retryCount = 3 /\ uploads = 3 /\ exitPath = "failed"
  /\ lastWait = 2000 /\ polls = 0

\* C3: when every request and timer settles, a call that passed file-type
\* validation eventually finishes, and whenever no call is running uploading
\* is false.
C3_UploadFinishes ==
  /\ [](~Running => ~uploading)
  /\ [](Running => <>(pvPc = "done" /\ ~uploading))

C3_Witness ==
  pvPc = "done" /\ exitPath = "failed" /\ ~uploading /\ polls = 30

\* C4 (as stated): when all 3 attempts failed, error is the last attempt's
\* message and no presentation is set, whatever the file type.
C4_Original ==
  (pvPc = "done" /\ retryCount = 3) =>
     (error = lastError /\ presentation = NoPresentation)

\* C4 (amended): when all 3 attempts failed, a file whose MIME type is not
\* application/pdf ends with error = the last attempt's message and no
\* presentation; a file of type application/pdf ends with the guessed
\* /static/uploads/<slug>.pdf presentation and no error.
C4_Amended ==
  (pvPc = "done" /\ retryCount = 3) =>
     IF file.type = PdfMime
     THEN /\ error = Null
          /\ presentation # NoPresentation
          /\ presentation.url =
               <<ApiUrl, "static", "uploads", Slug(file.name), ".pdf">>
     ELSE /\ error = lastError /\ error # Null
          /\ presentation = NoPresentation

C4_Witness ==
  /\ pvPc = "done" /\ retryCount = 3 /\ file.type # PdfMime
  /\ error = "No URL or status check URL returned from server"
  /\ presentation = NoPresentation

\* the state part of C5: what holds once a status check has failed
C5_FallbackState ==
  statusKind \in StatusFailureKinds =>
    /\ pvPc \in {"fallbackWait", "done", "idle"}
    /\ (pvPc = "fallbackWait" =>
          timer = 5000 /\ error = Null /\ presentation = NoPresentation)
    /\ (pvPc = "done" =>
          /\ exitPath = "fallback" /\ lastWait = 5000
          /\ presentation # NoPresentation
          /\ presentation.url = <<ApiUrl, "static", "presentations",
                                  responseData.document_id, "document.pdf">>
          /\ uploadProgress = ProgressFull
          /\ error = Null)

\* the step part of C5: after a failed status check nothing more is requested
C5_NoFurtherRequest ==
  (statusKind \in StatusFailureKinds /\ statusKind' \in StatusFailureKinds)
    => (polls' = polls /\ uploads' = uploads)

\* C5: a failed status check (rejected, not OK, not JSON) ends the polling:
\* the handler waits 5000 ms, presents the guessed document.pdf URL with
\* progress 100 and no error, and sends no further status or upload request.
C5_FallbackOnStatusFailure ==
  []C5_FallbackState /\ [][C5_NoFurtherRequest]_vars

C5_Witness ==
  /\ pvPc = "done" /\ statusKind = "notok" /\ exitPath = "fallback"
  /\ polls = 3 /\ uploads = 2

\* C6: once handleFileUpload has set a presentation, iframeLoading eventually
\* becomes false while that presentation is still shown (no 'Upload Another').
C6_IframeEventuallyShown ==
  [](pvPc = "done" /\ presentation # NoPresentation
       => <>(presentation # NoPresentation /\ ~iframeLoading))

(***************************************************************************)
(* Properties of TransformPage.handleTransform                             *)
(***************************************************************************)
\* C7: when a transform fails because getAccessTokenSilently failed with
\* 'Missing Refresh Token' or 'invalid_grant', the page has called
\* loginWithRedirect by the time the handler has finished.
C7_ExpiryTriggersRedirect ==
  (tpPc = "done" /\ tpOutcome = "expired") => loginRedirects > 0

\* C8: when a handleTransform call that passed validation and the rate-limit
\* check has failed (token failure or API failure), the error state holds a
\* non-empty message once the handler has finished, whatever it held before.
C8_FailureShowsMessage ==
  (tpPc = "done" /\ tpOutcome \in {"expired", "tokenfail", "apifail"})
    => Shown(tpError)

\* a text with something besides white space, of at most 250 characters
ValidInput(t) == ~t.blank /\ t.len >= 1 /\ t.len <= 250

\* C9: no transform request carries a text that is empty, white space only or
\* longer than 250 characters; a handleTransform call on such a text ends
\* with the validation message, with no request and with isLoading false
\* (isLoading is true only during a call on a valid text).
C9_NoInvalidTransformRequest ==
  /\ (tpRequest # NoRequest => ValidInput(tpRequest.text))
  /\ (tpPc \in {"token", "api"} => ValidInput(closure.inputText))
  /\ (isLoading => tpPc \in {"token", "api"})
  /\ (~ValidInput(inputText) =>
        /\ tpPc \in {"idle", "done"} /\ ~isLoading /\ tpRequest = NoRequest
        /\ (tpPc = "done" =>
              /\ tpOutcome = (IF inputText.blank THEN "blank" ELSE "toolong")
              /\ tpError = (IF inputText.blank
                            THEN <<"Please enter some text to transform">>
                            ELSE <<"Text cannot exceed 250 characters">>)))

C9_Witness ==
  /\ tpPc = "done" /\ tpOutcome = "toolong" /\ inputText.len = 251
  /\ ~isLoading /\ tpRequest = NoRequest

(***************************************************************************)
(* Properties of the lecture pages                                         *)
(***************************************************************************)
\* a text that is not null, not empty and at most 1000 characters long
ValidLectureText(t) == t # NullText /\ t.len >= 1 /\ t.len <= 1000

\* the state part of C10: every call in progress, and so every request sent,
\* carries a text that is not null, not empty and at most 1000 characters
C10_CallsCarryValidText ==
  \A i \in 1..Len(calls) : ValidLectureText(calls[i].text)

\* the step part of C10: a step starts a call only on the current text, and
\* only when that text is valid
C10_StartsOnlyOnValidText ==
  Len(calls') > Len(calls) =>
    /\ calls'[Len(calls')].text = currentText'
    /\ ValidLectureText(currentText')

\* C10: for every sequence of handleTransform(text) and generate calls, the
\* lecture pages start and send a transform request only for a current text
\* that is not null, not empty and no longer than 1000 characters.
C10_NoInvalidLectureRequest ==
  []C10_CallsCarryValidText /\ [][C10_StartsOnlyOnValidText]_vars

C10_Witness ==
  /\ currentText.len = 1001 /\ isOverLimit
  /\ Len(calls) = 1 /\ calls[1].pc = "fetch"
  /\ calls[1].text.len = 1000

(***************************************************************************)
(* Properties of the routes                                                *)
(***************************************************************************)
ProtectedPages == {"TransformPage", "LecturePage"}

\* C11: the protected pages (TransformPage at /transform, LecturePage at
\* /lecture) are rendered only while isAuthenticated is true and Auth0 is
\* not loading; in every other auth state a protected route shows a loading
\* screen, nothing, or a redirect.
C11_ProtectedPagesNeedAuth ==
  /\ View \in ProtectedPages => isAuthenticated /\ ~authLoading
  /\ View = "TransformPage" => pathname = "/transform"
  /\ View = "LecturePage" => pathname = "/lecture"
  /\ (pathname \in protectedPaths /\ ~(isAuthenticated /\ ~authLoading)) =>
       View \in {"Loading", "Nothing", "Navigate"}

C11_Witness ==
  /\ appVariant = "App" /\ View = "LecturePage"
  /\ history # <<>>

(***************************************************************************)
(* Properties of the rate limiter                                          *)
(***************************************************************************)
\* C12: TransformPage sends at most maxRequestsPerMinute transform requests
\* to the API within any 60-second window.
C12_AtMostLimitPerWindow ==
  sent # NotRecorded => Len(Recent(sent, now)) <= maxRequestsPerMinute

(***************************************************************************)
(* Properties of FileUpload                                                *)
(***************************************************************************)
\* C13: no file larger than 20 MB and no file whose MIME type is outside
\* SUPPORTED_FORMATS is ever in the file list filled through FileUpload,
\* whether the file arrived through the picker or through drag-and-drop.
C13_OnlyValidFilesListed ==
  \A i \in 1..Len(files) :
    /\ files[i].size <= 20 * 1024 * 1024
    /\ files[i].type \in SUPPORTED_FORMATS

C15_SuccessOnlyWithPdf ==
  cvPc = "returned" =>
    /\ cvResult[1] =>
         /\ process.state = "exited" /\ process.returncode = 0
         /\ cvResult[2] \in output_dir \ {"deck.txt"}
         /\ "presentation.pdf" \in output_dir => cvResult[2] = "presentation.pdf"
    /\ process.state = "exited" =>
         IF process.returncode = 0
         THEN /\ lookedForFile
              /\ output_dir \subseteq {"deck.txt"} =>
                   cvResult = <<FALSE, "PDF file not created">>
         ELSE ~cvResult[1] /\ ~lookedForFile

C15_Witness ==
  /\ cvPc = "returned" /\ process.state = "exited" /\ process.returncode = 0
  /\ output_dir = {"deck.pdf", "deck.txt"}
  /\ cvResult = <<TRUE, "deck.pdf">>

(***************************************************************************)
(* Properties of the upload response dispatch                              *)
(***************************************************************************)
\* an OK, error-free upload response that does not take the immediate PDF
\* or PowerPoint path
C16_Applies(r) ==
  /\ r.kind = "ok" /\ r.error = Undefined
  /\ ~(r.document_id # Undefined /\ file.type \in {PdfMime, PptMime, PptxMime})

C16_Dispatch(r) ==
  IF r.status = "processing" /\ r.check_status_url # Undefined THEN
    /\ pvPc' = "pollWait" /\ statusCheckCount' = 0 /\ responseData' = r
    /\ presentation' = presentation /\ polls' = polls
  ELSE IF r.url # Undefined THEN
    /\ pvPc' = "done" /\ exitPath' = "direct"
    /\ presentation'.url = <<ApiUrl, r.url>>
    /\ iframeLoading' /\ polls' = polls
  ELSE
    /\ lastError' = "No URL or status check URL returned from server"
    /\ retryCount' = retryCount + 1
    /\ pvPc' \in {"backoff", "done"} /\ polls' = polls

\* C16: for an OK, error-free upload response that does not take the
\* immediate PDF or PowerPoint path, handleFileUpload dispatches on its
\* shape: status "processing" with check_status_url starts polling;
\* otherwise a url field is shown directly, prefixed with the API base URL,
\* with no status request; otherwise the attempt fails with 'No URL or
\* status check URL returned from server'.
C16_DispatchOnShape ==
  [][\A r \in UploadResponses :
       (pvPc = "upload" /\ C16_Applies(r) /\ UploadResponds(r))
         => C16_Dispatch(r)]_vars

C16_Witness ==
  /\ pvPc = "done" /\ exitPath = "direct" /\ polls = 0
  /\ presentation # NoPresentation
  /\ presentation.url = <<ApiUrl, "/static/p/index.html">>
  /\ file.type = DocxMime

(***************************************************************************)
(* Properties of the transform request                                     *)
(***************************************************************************)
\* C17: every transform request built by TransformPage carries a
\* transformationType in {simplify, sophisticate, casualise, formalise} and
\* an integer level from 1 to 5, for every sequence of type and level
\* selections.
C17_RequestTypeAndLevel ==
  tpRequest # NoRequest =>
    /\ tpRequest.transformationType \in
         {"simplify", "sophisticate", "casualise", "formalise"}
    /\ tpRequest.level \in 1..5

C17_Witness ==
  /\ tpRequest # NoRequest
  /\ tpRequest.transformationType = "formalise" /\ tpRequest.level = 5
  /\ transformType = "formalise" /\ transformLevel = "5"

(***************************************************************************)
(* Properties of the route guard's redirecting flag                        *)
(***************************************************************************)
\* the location suits the auth state: the guard has nothing to redirect
C18_CorrectPath ==
  /\ ~(isAuthenticated /\ pathname = "/")
  /\ ~(~isAuthenticated /\ pathname \in {"/transform", "/lecture"})

\* C18: after the App global route guard has redirected (redirecting is
\* true and it has navigated), once the location is a correct path for the
\* auth state the redirecting flag is eventually reset to false, so that App
\* leaves the 'Loading...' screen and renders the routes.
C18_RedirectingEventuallyReset ==
  (appVariant = "App" /\ redirecting /\ ~leaving /\ ~authLoading
     /\ C18_CorrectPath)
    ~> (~redirecting /\ View # "Loading")

(***************************************************************************)
(* Properties of the two catch blocks of handleTransform                   *)
(***************************************************************************)
\* C19: when the API call in handleTransform fails and the inner catch has
\* set its detailed error message, the outer catch does not overwrite it:
\* the error shown after the handler finishes is the inner catch's message.
C19_InnerMessageKept ==
  [][\A r \in ApiResponses :
       (tpPc = "api" /\ ApiErrorOf(r) # NoRequest /\ ApiSettles(r))
         => tpError' = InnerApiMessage(ApiErrorOf(r))]_vars

(***************************************************************************)
(* Properties of a status poll that reports an error                       *)
(***************************************************************************)
\* the step part of C20: the poll that returns status "error" makes the
\* current attempt fail with statusData.error or 'Error processing document'
C20_AttemptFailsWithError ==
  \A s \in StatusResponses :
    (pvPc = "pollFetch" /\ s.kind = "ok" /\ s.status = "error"
       /\ StatusResponds(s))
      => /\ lastError' = (IF s.error # Undefined THEN s.error
                          ELSE "Error processing document")
         /\ retryCount' = retryCount + 1

\* the state part of C20: no presentation is shown as a result of a poll
\* that returned status "error"
C20_NoPresentationFromError ==
  ~(statusKind = "error" /\ exitPath = "fallback"
      /\ presentation # NoPresentation)

\* C20: if a status poll returns a body with status "error", the current
\* upload attempt fails with that error (statusData.error, or 'Error
\* processing document') and no presentation is set as a result of that
\* poll.
C20_StatusErrorFailsAttempt ==
  [][C20_AttemptFailsWithError]_vars /\ []C20_NoPresentationFromError

(***************************************************************************)
(* Properties of overlapping lecture transforms                            *)
(***************************************************************************)
\* C21: in the auto-transforming LecturePage (pages/LecturePage.tsx), when
\* handleTransform is called for several texts in succession, isLoading is
\* true for as long as any request is still in flight (and, once all have
\* completed, outputText is the result for the latest text).
C21_LoadingWhileInFlight ==
  (variant = "pages" /\ calls # <<>>) => lpIsLoading

(***************************************************************************)
(* Properties of the shared OCR service                                    *)
(***************************************************************************)
\* C22: for every interleaving of initialize() and terminate() calls on the
\* shared ocrService, at most one Tesseract worker is alive at any time.
C22_AtMostOneWorker == Cardinality(alive) <= 1

(***************************************************************************)
(* Properties of the controls of TransformPage                             *)
(***************************************************************************)
\* C23: while isLoading or isTestingConnection is true, neither the
\* Transform button nor Ctrl+Enter starts another transform.
C23_NoStartWhileBusy ==
  [][(isLoading \/ isTestingConnection)
       => ~(tpPc # "token" /\ tpPc' = "token")]_vars

(***************************************************************************)
(* Properties of the object URLs of uploaded files                         *)
(***************************************************************************)
\* C24: the object URL of a file is revoked only when that file is removed
\* from the list, stops being the displayed (most recent) file, or the
\* viewer unmounts; updating the displayed file never revokes its URL.
C24_RevokedOnlyWhenGone ==
  [][\A u \in revoked' \ revoked :
       \/ \A i \in 1..Len(fcFiles') : fcFiles'[i].url # u
       \/ /\ fcFiles # <<>> /\ fcFiles[Len(fcFiles)].url = u
          /\ fcFiles'[Len(fcFiles')].url # u
       \/ previewMounted /\ ~previewMounted']_vars

C26_RecordedOnlyOnSuccess ==
  [][IF tpPc = "api" /\ tpOutcome' = "ok"
     THEN requests' = Append(Recent(requests, now), now)
     ELSE IF tpPc \in {"idle", "done"} /\ tpPc' \in {"token", "done"}
     THEN IF tpOutcome' \in {"blank", "toolong", "ratelimited"}
          THEN requests' = requests
          ELSE requests' = Recent(requests, now)
     ELSE requests' = requests]_vars

\* C26 as stated: a transform that does not succeed (here: the call of the
\* handler, up to its rejection or its first await) leaves the recorded
\* timestamps unchanged.
C26_CallLeavesRequests ==
  [][(tpPc \in {"idle", "done"} /\ tpPc' \in {"token", "done"})
       => requests' = requests]_vars

C26_Witness ==
  tpPc = "done" /\ tpOutcome = "ok" /\ Len(requests) = 2

(***************************************************************************)
(* Properties of ProtectedRoute's redirect to the login page               *)
(***************************************************************************)
\* C27: while the user stays unauthenticated and Auth0 is not loading, a
\* mounted ProtectedRoute calls loginWithRedirect at most once, however
\* many times its effect runs.
C27_LoginCalledOnce ==
  (prMounted /\ ~prIsAuthenticated /\ ~prIsLoading) => prCalls <= 1

(***************************************************************************)
(* Properties of the capped preview retries                                *)
(***************************************************************************)
\* C28: in the retry-capped viewers the preview of one presentation is
\* reloaded at most 3 times between two successful loads.
C28_AtMostThreeReloads == rvReloads <= 3

=============================================================================
